---------------------------- MODULE Spec2Model ----------------------------
(***************************************************************************)
(* A model of the clamav-rs wrapper: process initialisation (lib.rs),      *)
(* the Engine handle and its scans (engine.rs), and the scan settings      *)
(* builder (scan_settings.rs).  The native library is the environment:     *)
(* every native call returns a status chosen nondeterministically from     *)
(* the statuses the call can produce.                                      *)
(***************************************************************************)
EXTENDS Integers, Sequences, FiniteSets, TLC

VARIABLES
    \* ---- process initialisation (lib.rs: initialize) ----
    pc,              \* pc[t]: "idle", or "called" once cl_init has run in t's call
    result,          \* result[t]: the local `result` of t's call in flight
    enteredAt,       \* enteredAt[t]: number of calls that had returned when t's call began
    nativeInitCalls, \* number of executions of the native cl_init
    returned,        \* the values returned by initialize(), in order of return
    \* ---- engines (engine.rs: Engine) ----
    engine,          \* engine[e]: the Engine value e, its state and its handle
    nextHandle,      \* the next allocation the native cl_engine_new hands out
    freeCount,       \* freeCount[h]: number of cl_engine_free calls that received h
    usedAfterFree,   \* a native call received a handle that had been freed
    ret,             \* the value returned by the last Engine call
    native,          \* the native call the last Engine call made ("none" if it made
                     \* none), and what it gave back
    \* ---- scan settings (scan_settings.rs) ----
    current,         \* ScanSettingsBuilder.current: the five groups of the builder
    chain,           \* the builder the last builder method returned, by its groups
    settings,        \* the last ScanSettings made (build() or default()), if any
    lastMethod,      \* the last method called on the builder or the settings
    called,          \* the builder methods called since ScanSettingsBuilder::new(), in order
    calls,           \* number of calls made on builders so far
    limit,           \* number of calls on builders the run goes up to
    arg,             \* the flags the last ScanSettings setter was called with
    output,          \* what the last ScanSettings method returned
    \* ---- engine properties (engine.rs: Engine::get, Engine::set) ----
    props,           \* props[h][field]: the value the native engine h holds for field
    propCall,        \* the last call of Engine::get or Engine::set, with its arguments
    \* ---- mappings (fmap.rs: Fmap) ----
    fmap,            \* fmap[m]: the Fmap value m, its state and the mapping it holds
    nextMap,         \* the next mapping the native open calls hand out
    closeCount,      \* closeCount[p]: number of cl_fmap_close calls that received p
    held,            \* held[m]: the caller still holds the memory region or the OS
                     \* handle that Fmap m was made from
    \* ---- descriptors of OS handles (windows_fd.rs: WindowsFd) ----
    wfd,             \* wfd[w]: the WindowsFd value w, its descriptor, and the state
                     \* of the duplicate handle made for it
    origOpen,        \* the file handle of the caller is open
    \* ---- functions without state (fmap.rs: cl_pread, error.rs, engine.rs) ----
    pure             \* the last application of such a function: its arguments
                     \* and what it gave

initVars   == <<pc, result, enteredAt, nativeInitCalls, returned>>
engineVars == <<engine, nextHandle, freeCount, usedAfterFree, ret, native>>
settingsVars == <<current, chain, settings, lastMethod, called, calls, limit,
                  arg, output>>
propVars   == <<props, propCall>>
fmapVars   == <<fmap, nextMap, closeCount, held>>
auxVars    == <<wfd, origOpen, pure>>
restVars   == <<propVars, fmapVars, auxVars>>
vars       == <<pc, result, enteredAt, nativeInitCalls, returned,
                engine, nextHandle, freeCount, usedAfterFree, ret, native,
                current, chain, settings, lastMethod, called, calls, limit,
                arg, output, props, propCall, fmap, nextMap, closeCount, held,
                wfd, origOpen, pure>>

---------------------------------------------------------------------------
(* Bounds of the model *)

NumThreads == 2
MaxInitCalls == 3
MaxEngines == 2
MaxSigs == 2
MaxBuilderCalls == 2
MaxChainCalls == 4
MaxSetCalls == 2
MaxFmaps == 2
MaxWindowsFds == 2

Threads == 1..NumThreads
Engines == 1..MaxEngines
Fmaps == 1..MaxFmaps
WindowsFds == 1..MaxWindowsFds

---------------------------------------------------------------------------
(* Native status codes: enum cl_error, numbered from 0 in declaration order *)

CL_SUCCESS == 0
CL_VIRUS == 1
CL_ENULLARG == 2
CL_EARG == 3
CL_EMALFDB == 4
CL_EOPEN == 8
CL_EMEM == 20
CL_BREAK == 22
CL_ELAST_ERROR == 33

\* impl cl_error { pub const CL_CLEAN: cl_error = cl_error::CL_SUCCESS; }
CL_CLEAN == CL_SUCCESS

cl_error == CL_SUCCESS..CL_ELAST_ERROR

---------------------------------------------------------------------------
(* Result values.  Every value is a record of the same shape:              *)
(*   tag  : "None" | "Ok" | "Err" | "Clean" | "Whitelisted" | "Virus" |     *)
(*          "Stats" | "Panic"                                              *)
(*   code : the status code of a ClamError (Err), else -1                  *)
(*   name : the detected name of a Virus, a sequence of bytes, else << >>  *)
(*   num  : the signature_count of a DatabaseStats, else 0                 *)

NoCode == 0 - 1

Val(tag, code, name, num) == [tag |-> tag, code |-> code, name |-> name, num |-> num]

NoValue == Val("None", NoCode, << >>, 0)
Ok == Val("Ok", NoCode, << >>, 0)

\* ClamError::new(native_err): the error holds the native code unchanged
ClamError_new(native_err) == native_err

Err(clamError) == Val("Err", clamError, << >>, 0)

\* An unwrap()/expect() that failed: the call unwinds and returns nothing
Panic == Val("Panic", NoCode, << >>, 0)

---------------------------------------------------------------------------
(* Process initialisation *)

\* The statuses the native cl_init can return
cl_init_statuses == {CL_SUCCESS, CL_EMEM, CL_EARG}

\* match result { CL_SUCCESS => Ok(()), _ => Err(ClamError::new(result)) }
initialize_match(res) ==
    IF res = CL_SUCCESS THEN Ok ELSE Err(ClamError_new(res))

\* A call of initialize() begins in thread t: cl_init runs, `result` holds its status
InitializeCall(t) ==
    /\ pc[t] = "idle"
    /\ nativeInitCalls < MaxInitCalls
    /\ \E st \in cl_init_statuses :
          result' = [result EXCEPT ![t] = st]
    /\ nativeInitCalls' = nativeInitCalls + 1
    /\ enteredAt' = [enteredAt EXCEPT ![t] = Len(returned)]
    /\ pc' = [pc EXCEPT ![t] = "called"]
    /\ UNCHANGED returned
    /\ UNCHANGED engineVars
    /\ UNCHANGED settingsVars
    /\ UNCHANGED restVars

\* The call in thread t returns the status, translated
InitializeReturn(t) ==
    /\ pc[t] = "called"
    /\ returned' = Append(returned, [thread |-> t,
                                     value |-> initialize_match(result[t]),
                                     enteredAt |-> enteredAt[t]])
    /\ pc' = [pc EXCEPT ![t] = "idle"]
    /\ result' = [result EXCEPT ![t] = CL_SUCCESS]
    /\ enteredAt' = [enteredAt EXCEPT ![t] = 0]
    /\ UNCHANGED nativeInitCalls
    /\ UNCHANGED engineVars
    /\ UNCHANGED settingsVars
    /\ UNCHANGED restVars

\* A call of initialize() has returned Ok
InitCompleted == \E i \in DOMAIN returned : returned[i].value.tag = "Ok"

---------------------------------------------------------------------------
(* Engine: construction and teardown *)

\* The null pointer cl_engine_new returns when it cannot allocate
NULL == 0

Handles == 1..MaxEngines

\* A C string pointer: null, or the bytes it points at (without the final NUL);
\* dangling when the buffer it points at has been released
NullPtr == [null |-> TRUE, dangling |-> FALSE, bytes |-> << >>]
Ptr(bytes) == [null |-> FALSE, dangling |-> FALSE, bytes |-> bytes]

\* A memory region given by pointer and length, an OS handle given with a length
Region(start, len) == [start |-> start, len |-> len]

\* The null pointer and the address of a buffer of the caller
NullStart == 0
BufferStart == 256 * 16

NoRegion == Region(NullStart, 0)

\* A native call: the function, the status it returned, the detected name it
\* wrote to its out-parameter, the file name pointer it was given, the mapping
\* it was given or gave back, the region it was to map
OpenCall(fn, status, virname, filename, map, region) ==
    [fn |-> fn, status |-> status, virname |-> virname, filename |-> filename,
     map |-> map, region |-> region]

MapCall(fn, status, virname, filename, map) ==
    OpenCall(fn, status, virname, filename, map, NoRegion)

NativeCall(fn, status, virname, filename) ==
    MapCall(fn, status, virname, filename, NULL)

NoNativeCall == NativeCall("none", CL_SUCCESS, NullPtr, NullPtr)

UnbornEngine == [st |-> "unborn", handle |-> NULL, compiled |-> FALSE, sigs |-> 0]

\* The handles the native cl_engine_new can return: a fresh allocation, or null
cl_engine_new == {nextHandle, NULL}

\* Engine::new(): Engine { handle: cl_engine_new() }
EngineNew(e) ==
    /\ engine[e].st = "unborn"
    /\ \E h \in cl_engine_new :
          /\ engine' = [engine EXCEPT ![e] = [st |-> "live", handle |-> h,
                                              compiled |-> FALSE, sigs |-> 0]]
          /\ nextHandle' = IF h = NULL THEN nextHandle ELSE nextHandle + 1
          /\ native' = NativeCall("cl_engine_new", CL_SUCCESS, NullPtr, NullPtr)
    /\ ret' = NoValue
    /\ UNCHANGED <<freeCount, usedAfterFree>>
    /\ UNCHANGED initVars
    /\ UNCHANGED settingsVars
    /\ UNCHANGED restVars

\* A native call receives handle h: it is a use after free when h was freed
NativeUse(h) == usedAfterFree \/ (h # NULL /\ freeCount[h] > 0)

\* A teardown that does not free: the value goes and the handle leaks
Drop_without_free(e) ==
    /\ engine[e].st = "live"
    /\ engine' = [engine EXCEPT ![e] = [st |-> "dropped", handle |-> @.handle,
                                        compiled |-> FALSE, sigs |-> 0]]
    /\ native' = NoNativeCall
    /\ ret' = NoValue
    /\ UNCHANGED <<nextHandle, freeCount, usedAfterFree>>
    /\ UNCHANGED initVars
    /\ UNCHANGED settingsVars
    /\ UNCHANGED restVars

\* impl Drop for Engine: cl_engine_free(self.handle); the value is gone afterwards
Drop(e) ==
    /\ engine[e].st = "live"
    /\ usedAfterFree' = NativeUse(engine[e].handle)
    /\ freeCount' = [freeCount EXCEPT ![engine[e].handle] = @ + 1]
    /\ engine' = [engine EXCEPT ![e] = [st |-> "dropped", handle |-> @.handle,
                                        compiled |-> FALSE, sigs |-> 0]]
    /\ native' = NativeCall("cl_engine_free", CL_SUCCESS, NullPtr, NullPtr)
    /\ ret' = NoValue
    /\ UNCHANGED nextHandle
    /\ UNCHANGED initVars
    /\ UNCHANGED settingsVars
    /\ UNCHANGED restVars

---------------------------------------------------------------------------
(* Strings cross the boundary as bytes *)

\* CString::new(s): fails when s holds an interior NUL byte
CString_new_fails(bytes) == \E i \in DOMAIN bytes : bytes[i] = 0

\* A UTF-8 continuation byte
IsCont(b) == b >= 128 /\ b <= 191

\* The length of the well-formed UTF-8 sequence that starts at bytes[i], 0 if none
Utf8Width(bytes, i) ==
    LET n  == Len(bytes)
        b0 == bytes[i]
        b1 == IF i + 1 <= n THEN bytes[i + 1] ELSE 0
        b2 == IF i + 2 <= n THEN bytes[i + 2] ELSE 0
        b3 == IF i + 3 <= n THEN bytes[i + 3] ELSE 0
    IN  IF b0 < 128 THEN 1
        ELSE IF b0 >= 194 /\ b0 <= 223
             THEN (IF IsCont(b1) THEN 2 ELSE 0)
        ELSE IF b0 >= 224 /\ b0 <= 239
             THEN (IF /\ IsCont(b1) /\ IsCont(b2)
                      /\ (b0 = 224 => b1 >= 160)
                      /\ (b0 = 237 => b1 <= 159)
                   THEN 3 ELSE 0)
        ELSE IF b0 >= 240 /\ b0 <= 244
             THEN (IF /\ IsCont(b1) /\ IsCont(b2) /\ IsCont(b3)
                      /\ (b0 = 240 => b1 >= 144)
                      /\ (b0 = 244 => b1 <= 143)
                   THEN 4 ELSE 0)
        ELSE 0

RECURSIVE ValidUtf8From(_, _)
ValidUtf8From(bytes, i) ==
    IF i > Len(bytes) THEN TRUE
    ELSE LET w == Utf8Width(bytes, i)
         IN  w > 0 /\ ValidUtf8From(bytes, i + w)

\* str::from_utf8(bytes).ok().unwrap_or_default().to_string()
from_utf8_or_default(bytes) ==
    IF ValidUtf8From(bytes, 1) THEN bytes ELSE << >>

---------------------------------------------------------------------------
(* Engine: scans *)

Clean == Val("Clean", NoCode, << >>, 0)
Whitelisted == Val("Whitelisted", NoCode, << >>, 0)
Virus(name) == Val("Virus", NoCode, name, 0)

\* fn map_scan_result(result, virname)
map_scan_result(res, virname) ==
    IF res = CL_CLEAN THEN Clean
    ELSE IF res = CL_BREAK THEN Whitelisted
    ELSE IF res = CL_VIRUS THEN Virus(from_utf8_or_default(virname.bytes))
    ELSE Err(ClamError_new(res))

\* What a native scan gives back: a name with CL_VIRUS, and with it alone
ScanOutcome(status, virname) ==
    IF status = CL_VIRUS THEN ~virname.null ELSE virname = NullPtr

\* filename.map(|x| CString::new(x)...).map_or(ptr::null(), |x| x.as_ptr()):
\* the closure takes the CString by value and releases it when it returns, so
\* the pointer it yields points at a released buffer
filename_ptr(filename) ==
    IF filename.some
    THEN [null |-> FALSE, dangling |-> TRUE, bytes |-> filename.bytes]
    ELSE NullPtr

None == [some |-> FALSE, bytes |-> << >>]
Some(bytes) == [some |-> TRUE, bytes |-> bytes]

\* A method of a live Engine makes the native call `call` and returns `value`
EngineCall(e, call, value) ==
    /\ usedAfterFree' = NativeUse(engine[e].handle)
    /\ native' = call
    /\ ret' = value
    /\ UNCHANGED <<nextHandle, freeCount>>
    /\ UNCHANGED initVars
    /\ UNCHANGED settingsVars
    /\ UNCHANGED restVars

\* A method of a live Engine panics before any native call
EnginePanic ==
    /\ ret' = Panic
    /\ native' = NoNativeCall
    /\ UNCHANGED <<engine, nextHandle, freeCount, usedAfterFree>>
    /\ UNCHANGED initVars
    /\ UNCHANGED settingsVars
    /\ UNCHANGED restVars

\* What a native scan leaves in the cl_scan_options it was given a pointer to:
\* it reads the options and writes none
cl_scan_options_after(options) == options

\* A scan whose options come back with every group emptied
ScanCall_clearing_options(e, call, value) ==
    /\ usedAfterFree' = NativeUse(engine[e].handle)
    /\ native' = call
    /\ ret' = value
    /\ settings' = [settings EXCEPT !.opts = [g \in DOMAIN @ |-> {}]]
    /\ UNCHANGED <<current, chain, lastMethod, called, calls, limit, arg, output>>
    /\ UNCHANGED <<nextHandle, freeCount>>
    /\ UNCHANGED initVars
    /\ UNCHANGED restVars

\* A native scan on the handle of a live Engine, with &mut settings.settings:
\* the ScanSettings holds afterwards what the native library left in it
ScanCall(e, call, value) ==
    /\ usedAfterFree' = NativeUse(engine[e].handle)
    /\ native' = call
    /\ ret' = value
    /\ settings' = [settings EXCEPT !.opts = cl_scan_options_after(@)]
    /\ UNCHANGED <<current, chain, lastMethod, called, calls, limit, arg, output>>
    /\ UNCHANGED <<nextHandle, freeCount>>
    /\ UNCHANGED initVars
    /\ UNCHANGED restVars

\* Engine::scan_file(path, settings): cl_scanfile, then map_scan_result
scan_file(e, path, status, virname) ==
    /\ engine[e].st = "live"
    /\ ScanOutcome(status, virname)
    /\ IF CString_new_fails(path)
       THEN EnginePanic
       ELSE /\ ScanCall(e, NativeCall("cl_scanfile", status,
                                        virname, Ptr(path)),
                          map_scan_result(status, virname))
            /\ UNCHANGED engine

\* Engine::scan_descriptor(descriptor, settings, filename): cl_scandesc, then
\* map_scan_result
scan_descriptor(e, filename, status, virname) ==
    /\ engine[e].st = "live"
    /\ ScanOutcome(status, virname)
    /\ IF filename.some /\ CString_new_fails(filename.bytes)
       THEN EnginePanic
       ELSE /\ ScanCall(e, NativeCall("cl_scandesc", status,
                                        virname, filename_ptr(filename)),
                          map_scan_result(status, virname))
            /\ UNCHANGED engine

\* Engine::scan_fileobj(file, settings, filename) (unix): the descriptor of the
\* file goes to scan_descriptor
scan_fileobj(e, filename, status, virname) ==
    /\ engine[e].st = "live"
    /\ scan_descriptor(e, filename, status, virname)

\* Fmap::raw(): the mapping the Fmap holds
raw(m) == fmap[m].map

\* Engine::scan_map(map, filename, settings): cl_scanmap_callback on map.raw(),
\* then map_scan_result.  `map` is a borrowed Fmap: a value that exists
scan_map(e, m, filename, status, virname) ==
    /\ engine[e].st = "live"
    /\ fmap[m].st = "live"
    /\ ScanOutcome(status, virname)
    /\ IF filename.some /\ CString_new_fails(filename.bytes)
       THEN EnginePanic
       ELSE /\ ScanCall(e, MapCall("cl_scanmap_callback", status, virname,
                                     filename_ptr(filename), raw(m)),
                          map_scan_result(status, virname))
            /\ UNCHANGED engine

---------------------------------------------------------------------------
(* Engine: databases, compilation, properties *)

\* The test fixtures: a database directory, a single database file, a path that
\* holds no database, and a path with an interior NUL byte
DatabaseDir == <<100, 98, 47>>
DatabaseFile == <<100, 98, 47, 99>>
FakePath == <<47, 110>>
NulPath == <<100, 0, 98>>

Paths == {DatabaseDir, DatabaseFile, FakePath, NulPath}

\* The number of signatures the database at `path` holds
SigsAt(path) ==
    IF path = DatabaseDir THEN 2 ELSE IF path = DatabaseFile THEN 1 ELSE 0

\* The statuses the native cl_load can return for handle h and `path`
cl_load_statuses(h, path) ==
    IF h = NULL THEN {CL_ENULLARG}
    ELSE IF SigsAt(path) > 0 THEN {CL_SUCCESS, CL_EMEM}
    ELSE {CL_EOPEN, CL_EMALFDB}

DatabaseStats(signature_count) == Val("Stats", NoCode, << >>, signature_count)

\* match result { CL_SUCCESS => Ok(DatabaseStats { signature_count }), _ => Err(..) }
load_match(status, signature_count) ==
    IF status = CL_SUCCESS THEN DatabaseStats(signature_count)
    ELSE Err(ClamError_new(status))

\* A load that reports the signatures the engine holds after it
load_databases_total(e, path) ==
    /\ engine[e].st = "live"
    /\ IF CString_new_fails(path)
       THEN EnginePanic
       ELSE \E status \in cl_load_statuses(engine[e].handle, path) :
            LET signature_count == IF status = CL_SUCCESS THEN SigsAt(path) ELSE 0
            IN  /\ engine[e].sigs + signature_count <= MaxSigs
                /\ engine' = [engine EXCEPT ![e].sigs = @ + signature_count]
                /\ EngineCall(e, NativeCall("cl_load", status,
                                            NullPtr, Ptr(path)),
                              load_match(status, engine[e].sigs + signature_count))

\* Engine::load_databases(path): cl_load with a counter that starts at 0
load_databases(e, path) ==
    /\ engine[e].st = "live"
    /\ IF CString_new_fails(path)
       THEN EnginePanic
       ELSE \E status \in cl_load_statuses(engine[e].handle, path) :
            LET signature_count == IF status = CL_SUCCESS THEN SigsAt(path) ELSE 0
            IN  /\ engine[e].sigs + signature_count <= MaxSigs
                /\ engine' = [engine EXCEPT ![e].sigs = @ + signature_count]
                /\ EngineCall(e, NativeCall("cl_load", status,
                                            NullPtr, Ptr(path)),
                              load_match(status, signature_count))

\* The statuses the native cl_engine_compile can return for handle h
cl_engine_compile_statuses(h) ==
    IF h = NULL THEN {CL_ENULLARG} ELSE {CL_SUCCESS, CL_EMEM}

\* A match that reports every compilation as a success
compile_match_always_ok(status) == Ok

\* match result { CL_SUCCESS => Ok(()), _ => Err(ClamError::new(result)) }
compile_match(status) ==
    IF status = CL_SUCCESS THEN Ok ELSE Err(ClamError_new(status))

\* Engine::compile(): cl_engine_compile
compile(e) ==
    /\ engine[e].st = "live"
    /\ \E status \in cl_engine_compile_statuses(engine[e].handle) :
          /\ engine' = [engine EXCEPT ![e].compiled = @ \/ status = CL_SUCCESS]
          /\ EngineCall(e, NativeCall("cl_engine_compile", status,
                                      NullPtr, NullPtr),
                        compile_match(status))

\* Numbers cross the boundary at their width.  A number is the sequence of its
\* 16-bit limbs, most significant first: two limbs for u32, four for u64,
\* i64 and time_t (i64 in two's complement)
LimbMax == 256 * 256 - 1
Limbs == 0..LimbMax

Word32(hi, lo) == <<hi, lo>>
Word64(a, b, c, d) == <<a, b, c, d>>

\* `val as i64` for val: u32 widens with zeros
u32_as_i64(val) == <<0, 0>> \o val

\* `val as i64` for val: u64 or time_t keeps the 64 bits
u64_as_i64(val) == val

\* `x as u32` for x: i64 keeps the low 32 bits
i64_as_u32(x) == SubSeq(x, 3, 4)

\* `x as u64` and `x as time_t` for x: i64 keep the 64 bits
i64_as_u64(x) == x

\* -1 as an i64
MinusOne64 == Word64(LimbMax, LimbMax, LimbMax, LimbMax)

\* The database versions a native engine can report
DbVersions == {Word64(0, 0, 0, 0), Word64(0, 0, 0, 26000)}

\* The outcomes of the native cl_engine_get_num(h, CL_ENGINE_DB_VERSION, &err):
\* the value it returns and the status it leaves in err
cl_engine_get_num_outcomes(h) ==
    IF h = NULL THEN {[value |-> MinusOne64, err |-> CL_ENULLARG]}
    ELSE {[value |-> v, err |-> CL_SUCCESS] : v \in DbVersions}

\* Ok(EngineValue::U32(value)), ::U64(value), ::String(value), ::Time(value):
\* the payload (limbs or bytes) travels in the name field
OkU32(value) == Val("OkU32", NoCode, value, 0)
OkU64(value) == Val("OkU64", NoCode, value, 0)
OkString(value) == Val("OkString", NoCode, value, 0)
OkTime(value) == Val("OkTime", NoCode, value, 0)

\* A read that keeps the low 16 bits only
get_U32_as_u16(out) ==
    IF out.err # 0 THEN Err(ClamError_new(out.err))
    ELSE OkU32(<<0>> \o SubSeq(out.value, 4, 4))

\* Engine::get(field) for a field of type U32:
\* let value = cl_engine_get_num(..) as u32;
\* if err != 0 { Err(ClamError::new(err)) } else { Ok(EngineValue::U32(value)) }
get_U32(out) ==
    IF out.err # 0 THEN Err(ClamError_new(out.err))
    ELSE OkU32(i64_as_u32(out.value))

\* Engine::database_version(): self.get(CL_ENGINE_DB_VERSION)?, a U32 field
database_version(e) ==
    /\ engine[e].st = "live"
    /\ \E out \in cl_engine_get_num_outcomes(engine[e].handle) :
          EngineCall(e, NativeCall("cl_engine_get_num", out.err, NullPtr, NullPtr),
                     get_U32(out))
    /\ UNCHANGED engine

\* enum EngineValueType
EngineValueType == {"U32", "U64", "String", "Time"}

\* fn get_field_type(field): the type declared for each engine field
get_field_type(field) ==
    IF field \in {"CL_ENGINE_MAX_SCANSIZE", "CL_ENGINE_MAX_FILESIZE",
                  "CL_ENGINE_MAX_EMBEDDEDPE", "CL_ENGINE_MAX_HTMLNORMALIZE",
                  "CL_ENGINE_MAX_HTMLNOTAGS", "CL_ENGINE_MAX_SCRIPTNORMALIZE",
                  "CL_ENGINE_MAX_ZIPTYPERCG", "CL_ENGINE_PCRE_MATCH_LIMIT",
                  "CL_ENGINE_PCRE_RECMATCH_LIMIT", "CL_ENGINE_PCRE_MAX_FILESIZE"}
    THEN "U64"
    ELSE IF field \in {"CL_ENGINE_PUA_CATEGORIES", "CL_ENGINE_TMPDIR"}
    THEN "String"
    ELSE IF field = "CL_ENGINE_DB_TIME"
    THEN "Time"
    ELSE "U32"

\* The engine fields the model sets and reads: one of each type
Fields == {"CL_ENGINE_MAX_RECURSION", "CL_ENGINE_MAX_SCANSIZE",
           "CL_ENGINE_TMPDIR", "CL_ENGINE_DB_TIME"}

\* enum EngineValue: a value and its type
EngineValue(kind, payload) == [kind |-> kind, payload |-> payload]
U32(val) == EngineValue("U32", val)
U64(val) == EngineValue("U64", val)
String(val) == EngineValue("String", val)
Time(val) == EngineValue("Time", val)

\* The values a caller passes to set: the ends and the sign bit of each width,
\* a text, a text with an interior NUL
EngineValues ==
    {U32(Word32(0, 7)), U32(Word32(32768, 0)), U32(Word32(LimbMax, LimbMax)),
     U64(Word64(LimbMax, LimbMax, LimbMax, LimbMax)),
     String(<<116>>), String(<<116, 0, 109>>),
     Time(MinusOne64)}

\* actual_type: match &value { EngineValue::U32(_) => EngineValueType::U32, .. }
actual_type(value) == value.kind

\* What a native engine holds before any set: numbers 0, strings a null pointer
NativeDefaults ==
    [field \in Fields |->
       IF get_field_type(field) = "String" THEN NullPtr ELSE Word64(0, 0, 0, 0)]

\* A call of get or set: the engine, the field, the value given (set)
PropCall(op, e, field, value) == [op |-> op, e |-> e, field |-> field, value |-> value]
NoPropCall == PropCall("none", 0, "", U32(Word32(0, 0)))

\* The statuses the native cl_engine_set_num and cl_engine_set_str can return
\* for handle h: the native library may refuse a field or a value
cl_engine_set_statuses(h) ==
    IF h = NULL THEN {CL_ENULLARG} ELSE {CL_SUCCESS, CL_EARG}

\* The native engine h after cl_engine_set_num / cl_engine_set_str returned
\* `status`: it holds the argument when it succeeded
cl_engine_set(h, field, argument, status) ==
    IF status = CL_SUCCESS THEN [props EXCEPT ![h][field] = argument] ELSE props

\* The argument set hands to the native call: `val as i64`, or val.as_ptr()
set_argument(value) ==
    IF value.kind = "U32" THEN u32_as_i64(value.payload)
    ELSE IF value.kind = "String" THEN Ptr(value.payload)
    ELSE u64_as_i64(value.payload)

\* if err != cl_error_t::CL_SUCCESS { Err(ClamError::new(err)) } else { Ok(()) }
set_match(err) == IF err # CL_SUCCESS THEN Err(ClamError_new(err)) ELSE Ok

\* A call of get or set on a live engine that returns `value` after the native
\* call `call`
PropertyCall(e, call, value) ==
    /\ usedAfterFree' = (IF call.fn = "none" THEN usedAfterFree
                         ELSE NativeUse(engine[e].handle))
    /\ native' = call
    /\ ret' = value
    /\ UNCHANGED <<engine, nextHandle, freeCount>>
    /\ UNCHANGED initVars
    /\ UNCHANGED settingsVars
    /\ UNCHANGED fmapVars
    /\ UNCHANGED auxVars

\* A set that passes a value of another type on to the native call
set_unchecked(e, field, value) ==
    /\ engine[e].st = "live"
    /\ propCall' = PropCall("set", e, field, value)
    /\ IF value.kind = "String" /\ CString_new_fails(value.payload)
       THEN /\ PropertyCall(e, NoNativeCall, Panic)
            /\ UNCHANGED props
       ELSE \E err \in cl_engine_set_statuses(engine[e].handle) :
               /\ props' = cl_engine_set(engine[e].handle, field,
                                         set_argument(value), err)
               /\ PropertyCall(e, NativeCall(IF value.kind = "String"
                                             THEN "cl_engine_set_str"
                                             ELSE "cl_engine_set_num",
                                             err, NullPtr, NullPtr),
                               set_match(err))

\* Engine::set(field, value): CL_EARG when the type of the value is not the
\* type of the field, else cl_engine_set_num / cl_engine_set_str
set(e, field, value) ==
    /\ engine[e].st = "live"
    /\ propCall' = PropCall("set", e, field, value)
    /\ IF get_field_type(field) # actual_type(value)
       THEN /\ PropertyCall(e, NoNativeCall, Err(ClamError_new(CL_EARG)))
            /\ UNCHANGED props
       ELSE IF value.kind = "String" /\ CString_new_fails(value.payload)
       THEN /\ PropertyCall(e, NoNativeCall, Panic)
            /\ UNCHANGED props
       ELSE \E err \in cl_engine_set_statuses(engine[e].handle) :
               /\ props' = cl_engine_set(engine[e].handle, field,
                                         set_argument(value), err)
               /\ PropertyCall(e, NativeCall(IF value.kind = "String"
                                             THEN "cl_engine_set_str"
                                             ELSE "cl_engine_set_num",
                                             err, NullPtr, NullPtr),
                               set_match(err))

\* The outcome of the native cl_engine_get_num / cl_engine_get_str for handle h:
\* the value the engine holds, and the status left in err
cl_engine_get(h, field) ==
    IF h = NULL
    THEN [value |-> IF get_field_type(field) = "String" THEN NullPtr
                    ELSE MinusOne64,
          err |-> CL_ENULLARG]
    ELSE [value |-> props[h][field], err |-> CL_SUCCESS]

\* Engine::get(field) for a field of type U64
get_U64(out) ==
    IF out.err # 0 THEN Err(ClamError_new(out.err))
    ELSE OkU64(i64_as_u64(out.value))

\* Engine::get(field) for a field of type Time
get_Time(out) ==
    IF out.err # 0 THEN Err(ClamError_new(out.err))
    ELSE OkTime(i64_as_u64(out.value))

\* Engine::get(field) for a field of type String:
\* CStr::from_ptr(value).to_str().unwrap().to_string().  from_ptr of a null
\* pointer is undefined: the call may crash or yield any text, here the empty one
get_String(out) ==
    IF out.err # 0 THEN {Err(ClamError_new(out.err))}
    ELSE IF out.value.null THEN {Panic, OkString(<< >>)}
    ELSE IF ~ValidUtf8From(out.value.bytes, 1) THEN {Panic}
    ELSE {OkString(out.value.bytes)}

\* match get_field_type(field) { U32 => .., U64 => .., String => .., Time => .. }
get_match(field, out) ==
    IF get_field_type(field) = "U32" THEN {get_U32(out)}
    ELSE IF get_field_type(field) = "U64" THEN {get_U64(out)}
    ELSE IF get_field_type(field) = "String" THEN get_String(out)
    ELSE {get_Time(out)}

\* Engine::get(field): cl_engine_get_num / cl_engine_get_str, by the type of
\* the field
get(e, field) ==
    /\ engine[e].st = "live"
    /\ propCall' = PropCall("get", e, field, U32(Word32(0, 0)))
    /\ LET out == cl_engine_get(engine[e].handle, field)
       IN  \E value \in get_match(field, out) :
              PropertyCall(e, NativeCall(IF get_field_type(field) = "String"
                                         THEN "cl_engine_get_str"
                                         ELSE "cl_engine_get_num",
                                         out.err, NullPtr, NullPtr),
                           value)
    /\ UNCHANGED props

\* x + y for 64-bit words, wrapping: limb i and the limbs before it, with the
\* carry from the limbs after
RECURSIVE AddCarry(_, _, _, _)
AddCarry(x, y, i, carry) ==
    IF i = 0 THEN << >>
    ELSE LET sum == x[i] + y[i] + carry
         IN  AddCarry(x, y, i - 1, sum \div (LimbMax + 1)) \o <<sum % (LimbMax + 1)>>

Add64(x, y) == AddCarry(x, y, 4, 0)

\* The least i64, and the test `x >= 0` on an i64
MinI64 == Word64(32768, 0, 0, 0)
MaxI64 == Word64(32767, LimbMax, LimbMax, LimbMax)
NonNegative(x) == x[1] < 32768

\* x * -1 for x: i64.  The product of the least i64 has no i64: a build that
\* checks overflow panics there, a build that does not wraps to the least i64
mul_minus_one(x) ==
    LET wrapped == Add64([i \in 1..4 |-> LimbMax - x[i]], Word64(0, 0, 0, 1))
    IN  IF x = MinI64
        THEN {[overflow |-> TRUE, value |-> wrapped],
              [overflow |-> FALSE, value |-> wrapped]}
        ELSE {[overflow |-> FALSE, value |-> wrapped]}

\* A SystemTime: UNIX_EPOCH + Duration::from_secs(secs), or UNIX_EPOCH - .. when
\* before; the payload is the side and the four limbs of secs
OkSystemTime(before, secs) ==
    Val("OkSystemTime", NoCode, <<IF before THEN 1 ELSE 0>> \o secs, 0)

\* ClamTime::as_system_time:
\* if self.0 >= 0 { UNIX_EPOCH + Duration::from_secs(self.0 as u64) }
\* else { UNIX_EPOCH - Duration::from_secs((self.0 * -1) as u64) }
as_system_time(t) ==
    IF NonNegative(t) THEN {OkSystemTime(FALSE, i64_as_u64(t))}
    ELSE {IF p.overflow THEN Panic ELSE OkSystemTime(TRUE, i64_as_u64(p.value)) :
             p \in mul_minus_one(t)}

\* if let EngineValue::Time(value) = self.get(CL_ENGINE_DB_TIME)? {
\*     Ok(value.as_system_time()) } else { Err(ClamError::new(CL_EARG)) }
database_timestamp_match(value) ==
    IF value.tag \in {"Err", "Panic"} THEN {value}
    ELSE IF value.tag = "OkTime" THEN as_system_time(value.name)
    ELSE {Err(ClamError_new(CL_EARG))}

\* Engine::database_timestamp()
database_timestamp(e) ==
    /\ engine[e].st = "live"
    /\ propCall' = PropCall("database_timestamp", e, "CL_ENGINE_DB_TIME",
                            U32(Word32(0, 0)))
    /\ LET out == cl_engine_get(engine[e].handle, "CL_ENGINE_DB_TIME")
       IN  \E value \in get_match("CL_ENGINE_DB_TIME", out) :
              \E instant \in database_timestamp_match(value) :
                 PropertyCall(e, NativeCall("cl_engine_get_num", out.err,
                                            NullPtr, NullPtr),
                              instant)
    /\ UNCHANGED props

---------------------------------------------------------------------------
(* Mappings: an Fmap wraps a native mapping over a memory region or an OS   *)
(* handle that the caller holds                                            *)

Maps == 1..MaxFmaps

\* The regions a caller passes: a buffer of four bytes, a buffer of no bytes,
\* null with no bytes
Regions == {Region(BufferStart, 4), Region(BufferStart, 0), Region(NullStart, 0)}

\* The OS handle of an open file, and the lengths a caller passes with it
FileHandle == 3
FileOffsets == {0, 2}
FileLens == {0, 4}

\* The mappings the native cl_fmap_open_memory(start, len) can return: a fresh
\* mapping, or null; null alone for a null or empty region
cl_fmap_open_memory(start, len) ==
    IF start = NullStart \/ len = 0 THEN {NULL} ELSE {nextMap, NULL}

\* The mappings the native cl_fmap_open_handle(handle, offset, len, cl_pread,
\* use_ageing) can return
cl_fmap_open_handle(len) ==
    IF len = 0 THEN {NULL} ELSE {nextMap, NULL}

\* The native cl_fmap_close(p): the mapping goes, what it was made from stays
cl_fmap_close(p) == [closeCount EXCEPT ![p] = @ + 1]

UnbornFmap == [st |-> "unborn", map |-> NULL, from |-> "none"]

\* Err(MapError::new()) and Ok(Fmap(map))
MapError == Val("MapError", NoCode, << >>, 0)
OkFmap(map) == Val("Fmap", NoCode, << >>, map)

\* A construction that wraps whatever the native call returned
wrap_unchecked(m, map, from) ==
    /\ fmap' = [fmap EXCEPT ![m] = [st |-> "live", map |-> map, from |-> from]]
    /\ ret' = OkFmap(map)

\* if map.is_null() { Err(MapError::new()) } else { Ok(Fmap(map)) }: the value
\* m comes to be when the mapping is not null
wrap(m, map, from) ==
    IF map = NULL
    THEN /\ fmap' = [fmap EXCEPT ![m] = [st |-> "failed", map |-> NULL,
                                         from |-> "none"]]
         /\ ret' = MapError
    ELSE /\ fmap' = [fmap EXCEPT ![m] = [st |-> "live", map |-> map,
                                         from |-> from]]
         /\ ret' = OkFmap(map)

\* A call of the Fmap API that makes the native call `call`
FmapCall(call) ==
    /\ native' = call
    /\ UNCHANGED <<engine, nextHandle, freeCount, usedAfterFree>>
    /\ UNCHANGED initVars
    /\ UNCHANGED settingsVars
    /\ UNCHANGED propVars
    /\ UNCHANGED auxVars

\* Fmap::new_from_memory(start, len): cl_fmap_open_memory, null is an error
new_from_memory(m, start, len) ==
    /\ fmap[m].st = "unborn"
    /\ \E map \in cl_fmap_open_memory(start, len) :
          /\ wrap(m, map, "memory")
          /\ nextMap' = IF map = NULL THEN nextMap ELSE nextMap + 1
          /\ FmapCall(OpenCall("cl_fmap_open_memory", CL_SUCCESS, NullPtr,
                               NullPtr, map, Region(start, len)))
    /\ UNCHANGED <<closeCount, held>>

\* Fmap::new_from_handle(handle, offset, len, use_ageing): cl_fmap_open_handle
\* with the cl_pread callback, null is an error
new_from_handle(m, handle, offset, len, use_ageing) ==
    /\ fmap[m].st = "unborn"
    /\ offset \in Nat
    /\ use_ageing \in BOOLEAN
    /\ \E map \in cl_fmap_open_handle(len) :
          /\ wrap(m, map, "handle")
          /\ nextMap' = IF map = NULL THEN nextMap ELSE nextMap + 1
          /\ FmapCall(OpenCall("cl_fmap_open_handle", CL_SUCCESS, NullPtr,
                               NullPtr, map, Region(handle, len)))
    /\ UNCHANGED <<closeCount, held>>

\* A teardown that does not close the mapping
Fmap_drop_without_close(m) ==
    /\ fmap[m].st = "live"
    /\ fmap' = [fmap EXCEPT ![m].st = "dropped"]
    /\ ret' = NoValue
    /\ FmapCall(NoNativeCall)
    /\ UNCHANGED <<closeCount, nextMap, held>>

\* impl Drop for Fmap: cl_fmap_close(self.0); the value is gone afterwards
Fmap_drop(m) ==
    /\ fmap[m].st = "live"
    /\ closeCount' = cl_fmap_close(fmap[m].map)
    /\ fmap' = [fmap EXCEPT ![m].st = "dropped"]
    /\ ret' = NoValue
    /\ FmapCall(MapCall("cl_fmap_close", CL_SUCCESS, NullPtr, NullPtr,
                        fmap[m].map))
    /\ UNCHANGED <<nextMap, held>>

\* The caller releases what Fmap m was made from: it frees the buffer or closes
\* the OS handle, which start and handle, plain values, do not prevent
Release(m) ==
    /\ fmap[m].st \in {"live", "dropped"}
    /\ held[m]
    /\ held' = [held EXCEPT ![m] = FALSE]
    /\ ret' = NoValue
    /\ FmapCall(NoNativeCall)
    /\ UNCHANGED <<fmap, nextMap, closeCount>>

\* No Fmap has been made
InitNoFmaps ==
    /\ fmap = [m \in Fmaps |-> UnbornFmap]
    /\ nextMap = 1
    /\ closeCount = [p \in Maps \cup {NULL} |-> 0]
    /\ held = [m \in Fmaps |-> TRUE]

\* One Fmap has been made from a buffer of the caller
InitOneFmap ==
    /\ fmap = [m \in Fmaps |->
                 IF m = 1 THEN [st |-> "live", map |-> 1, from |-> "memory"]
                 ELSE UnbornFmap]
    /\ nextMap = 2
    /\ closeCount = [p \in Maps \cup {NULL} |-> 0]
    /\ held = [m \in Fmaps |-> TRUE]

---------------------------------------------------------------------------
(* WindowsFd: a C runtime descriptor over a duplicate of an OS handle (the   *)
(* Windows build)                                                          *)

\* io::Error::last_os_error(): the error holds the code of the OS
OsError(code) == Val("OsError", code, << >>, 0)

\* io::Error::new(io::ErrorKind::InvalidInput, "Error converting ..."): an error
\* made by the wrapper, with no code of the OS in it
InvalidInput == Val("InvalidInput", NoCode, << >>, 0)

\* Ok(WindowsFd(fd))
OkWindowsFd(fd) == Val("WindowsFd", NoCode, << >>, fd)

\* ERROR_INVALID_HANDLE, the error of a DuplicateHandle that failed
ERROR_INVALID_HANDLE == 6

\* What DuplicateHandle can do: make a duplicate, or fail
DuplicateHandle == {"duplicated", "failed"}

\* The descriptor _open_osfhandle gives for the duplicate made for w, and -1,
\* its failure
NoFd == 0 - 1
FdOf(w) == 2 + w
open_osfhandle(w) == {FdOf(w), NoFd}

UnbornWindowsFd == [st |-> "unborn", fd |-> NoFd, dup |-> "none", closes |-> 0]

\* The outcomes of WindowsFd::new(handle) for the value w: the value, the state
\* of the duplicate, and what the call returns
WindowsFd_outcomes(w) ==
    {[dup |-> "failed", fd |-> NoFd]}
       \cup {[dup |-> "duplicated", fd |-> fd] : fd \in open_osfhandle(w)}

\* The body of WindowsFd::new: DuplicateHandle, then _open_osfhandle on the
\* duplicate; an error return leaves the duplicate as it is
WindowsFd_made(o) ==
    IF o.dup = "failed"
    THEN [st |-> "failed", fd |-> NoFd, dup |-> "none", closes |-> 0]
    ELSE IF o.fd = NoFd
    THEN [st |-> "failed", fd |-> NoFd, dup |-> "open", closes |-> 0]
    ELSE [st |-> "live", fd |-> o.fd, dup |-> "open", closes |-> 0]

WindowsFd_result(o) ==
    IF o.dup = "failed" THEN OsError(ERROR_INVALID_HANDLE)
    ELSE IF o.fd = NoFd THEN InvalidInput
    ELSE OkWindowsFd(o.fd)

\* _close(fd): the descriptor goes, and with it the handle under it
close_fd(v) == [v EXCEPT !.closes = @ + 1, !.dup = "closed"]

\* A call of the WindowsFd API, outside any engine
WindowsFdCall ==
    /\ native' = NoNativeCall
    /\ UNCHANGED <<engine, nextHandle, freeCount, usedAfterFree>>
    /\ UNCHANGED initVars
    /\ UNCHANGED settingsVars
    /\ UNCHANGED propVars
    /\ UNCHANGED fmapVars
    /\ UNCHANGED pure

\* A construction that wraps the handle of the caller itself, with no duplicate
WindowsFd_new_without_duplicate(w) ==
    /\ wfd[w].st = "unborn"
    /\ origOpen
    /\ wfd' = [wfd EXCEPT ![w] = [st |-> "live", fd |-> FdOf(w),
                                  dup |-> "original", closes |-> 0]]
    /\ ret' = OkWindowsFd(FdOf(w))
    /\ UNCHANGED origOpen
    /\ WindowsFdCall

\* WindowsFd::new(handle)
WindowsFd_new(w) ==
    /\ wfd[w].st = "unborn"
    /\ origOpen
    /\ \E o \in WindowsFd_outcomes(w) :
          /\ wfd' = [wfd EXCEPT ![w] = WindowsFd_made(o)]
          /\ ret' = WindowsFd_result(o)
    /\ UNCHANGED origOpen
    /\ WindowsFdCall

\* impl Drop for WindowsFd: _close(self.0); the value is gone afterwards
WindowsFd_drop(w) ==
    /\ wfd[w].st = "live"
    /\ wfd' = [wfd EXCEPT ![w] = [close_fd(@) EXCEPT !.st = "dropped"]]
    /\ origOpen' = (origOpen /\ wfd[w].dup # "original")
    /\ ret' = NoValue
    /\ WindowsFdCall

\* Engine::scan_fileobj(file, settings, filename) (windows):
\* WindowsFd::new(file.as_raw_handle()).map_err(|_| ClamError::new(CL_EARG))?,
\* then scan_descriptor on fd.raw(); fd is dropped when the function is left
scan_fileobj_windows(e, w, filename, status, virname) ==
    /\ engine[e].st = "live"
    /\ wfd[w].st = "unborn"
    /\ origOpen
    /\ ScanOutcome(status, virname)
    /\ \E o \in WindowsFd_outcomes(w) :
          LET made == WindowsFd_made(o)
          IN  IF made.st = "failed"
              THEN /\ wfd' = [wfd EXCEPT ![w] = made]
                   /\ ret' = Err(ClamError_new(CL_EARG))
                   /\ native' = NoNativeCall
                   /\ UNCHANGED usedAfterFree
              ELSE /\ wfd' = [wfd EXCEPT ![w] =
                                 [close_fd(made) EXCEPT !.st = "dropped"]]
                   /\ IF filename.some /\ CString_new_fails(filename.bytes)
                      THEN /\ ret' = Panic
                           /\ native' = NoNativeCall
                           /\ UNCHANGED usedAfterFree
                      ELSE /\ ret' = map_scan_result(status, virname)
                           /\ native' = NativeCall("cl_scandesc", status, virname,
                                                   filename_ptr(filename))
                           /\ usedAfterFree' = NativeUse(engine[e].handle)
    /\ settings' = [settings EXCEPT !.opts = cl_scan_options_after(@)]
    /\ UNCHANGED <<current, chain, lastMethod, called, calls, limit, arg, output>>
    /\ UNCHANGED <<engine, nextHandle, freeCount, origOpen>>
    /\ UNCHANGED initVars
    /\ UNCHANGED propVars
    /\ UNCHANGED fmapVars
    /\ UNCHANGED pure

\* No WindowsFd has been made, the file of the caller is open, no function
\* has been applied
NoPure == [fn |-> "none", args |-> << >>, result |-> << >>]

InitAux ==
    /\ wfd = [w \in WindowsFds |-> UnbornWindowsFd]
    /\ origOpen = TRUE
    /\ pure = NoPure

---------------------------------------------------------------------------
(* Functions without state: the positional read given to the native library *)
(* with a handle, the texts of an error, the instant of a timestamp         *)

\* An application of such a function: what was applied, to what, and what it gave
Applied(fn, args, value) == [fn |-> fn, args |-> args, result |-> value]

\* Nothing else changes
Stateless ==
    /\ UNCHANGED <<wfd, origOpen>>
    /\ UNCHANGED initVars
    /\ UNCHANGED engineVars
    /\ UNCHANGED settingsVars
    /\ UNCHANGED propVars
    /\ UNCHANGED fmapVars

\* The file behind the handle cl_pread is given: four bytes
FileBytes == <<10, 20, 30, 40>>

\* The offsets and counts the native library asks for
MaxOffset == 5
MaxCount == 5
Offsets == 0..MaxOffset
Counts == 0..MaxCount

\* The bytes of the file from position `pos` on, `count` at most
BytesAt(pos, count) ==
    IF pos >= Len(FileBytes) \/ count = 0 THEN << >>
    ELSE SubSeq(FileBytes, pos + 1,
                IF pos + count > Len(FileBytes) THEN Len(FileBytes) ELSE pos + count)

\* What a read gave: the OS outcome, the value returned, the bytes put in buf
Read(os, n, data) == [os |-> os, n |-> n, data |-> data]

\* The outcomes of libc::pread(fd, buf, count, offset): the bytes at offset, or
\* -1 for an error
libc_pread(count, offset) ==
    {Read("ok", Len(BytesAt(offset, count)), BytesAt(offset, count)),
     Read("error", 0 - 1, << >>)}

\* cl_pread (unix): libc::pread(handle as i32, buf, count, offset), the value
\* returned as it is
cl_pread_unix(count, offset) ==
    /\ \E r \in libc_pread(count, offset) :
          pure' = Applied("cl_pread_unix", [count |-> count, offset |-> offset], r)
    /\ Stateless

\* An OVERLAPPED, zeroed: Internal and InternalHigh, which belong to the system,
\* and Offset and OffsetHigh, the position of the read
OVERLAPPED_zeroed == [internal |-> 0, internal_high |-> 0,
                      offset |-> 0, offset_high |-> 0]

\* x >> 32 and x & 0xffffffff, for x: usize
shr32(x) == (x \div 65536) \div 65536
low32(x) == x - shr32(x) * 65536 * 65536

\* The outcomes of ReadFile(handle, buf, count, &mut read_bytes, &mut overlapped):
\* it reads at the position in Offset and OffsetHigh; past the end it fails
\* with ERROR_HANDLE_EOF and no byte read; it may fail with another error
ReadFile(count, overlapped) ==
    LET pos == overlapped.offset_high * 65536 * 65536 + overlapped.offset
    IN  {IF pos >= Len(FileBytes) /\ count > 0
         THEN [err |-> "ERROR_HANDLE_EOF", read_bytes |-> 0, data |-> << >>]
         ELSE [err |-> "none", read_bytes |-> Len(BytesAt(pos, count)),
               data |-> BytesAt(pos, count)],
         [err |-> "ERROR_ACCESS_DENIED", read_bytes |-> 0, data |-> << >>]}

\* overlapped.internal_high = (offset as usize) >> 32;
\* overlapped.internal = (offset as usize) & 0xffffffff;
overlapped_of(offset) ==
    [OVERLAPPED_zeroed EXCEPT !.internal_high = shr32(offset),
                              !.internal = low32(offset)]

\* cl_pread (windows): ReadFile with the OVERLAPPED; -1 for an error other than
\* ERROR_HANDLE_EOF, else read_bytes
cl_pread_windows(count, offset) ==
    /\ \E r \in ReadFile(count, overlapped_of(offset)) :
          pure' = Applied("cl_pread_windows", [count |-> count, offset |-> offset],
                          IF r.err \notin {"none", "ERROR_HANDLE_EOF"}
                          THEN Read("error", 0 - 1, << >>)
                          ELSE Read(IF r.err = "none" THEN "ok" ELSE "eof",
                                    r.read_bytes, r.data))
    /\ Stateless

\* The texts of a ClamError.  A text is a sequence of pieces, each a string

DigitChars == <<"0", "1", "2", "3", "4", "5", "6", "7", "8", "9">>

\* "{}" of an i32: its decimal digits, most significant first, "-" before a
\* negative one
RECURSIVE fmt_i32(_)
fmt_i32(n) ==
    IF n < 0 THEN <<"-">> \o fmt_i32(0 - n)
    ELSE IF n < 10 THEN <<DigitChars[n + 1]>>
    ELSE fmt_i32(n \div 10) \o <<DigitChars[(n % 10) + 1]>>

\* cl_strerror(code): the description the native library keeps for the code
cl_strerror(code) == <<"description of code ", ToString(code)>>

\* ClamError::string_error: the text of cl_strerror, which is UTF-8
string_error(code) == cl_strerror(code)

\* A Display that leaves the code out
ClamError_to_string_without_code(code) ==
    <<"cl_error ">> \o <<": ">> \o string_error(code)

\* impl fmt::Display for ClamError:
\* write!(f, "cl_error {}: {}", self.code as i32, self.string_error())
ClamError_to_string(code) ==
    <<"cl_error ">> \o fmt_i32(code) \o <<": ">> \o string_error(code)

\* impl fmt::Debug for ClamError: write!(f, "{}", self.to_string())
ClamError_fmt_Debug(code) == ClamError_to_string(code)

\* #[derive(PartialEq, Eq)] on struct ClamError { code }: the codes are compared
ClamError_eq(a, b) == a = b

\* format!("{}", ClamError::new(code))
Display(code) ==
    /\ pure' = Applied("Display", <<code>>, ClamError_to_string(ClamError_new(code)))
    /\ Stateless

\* format!("{:?}", ClamError::new(code))
Debug(code) ==
    /\ pure' = Applied("Debug", <<code>>, ClamError_fmt_Debug(ClamError_new(code)))
    /\ Stateless

\* ClamError::new(a) == ClamError::new(b)
PartialEq(a, b) ==
    /\ pure' = Applied("PartialEq", <<a, b>>,
                       ClamError_eq(ClamError_new(a), ClamError_new(b)))
    /\ Stateless

---------------------------------------------------------------------------
(* Scan settings.  A group of cl_scan_options is a 32-bit word; the model     *)
(* holds it as the set of the bits set in it, each bit named by its constant *)
(* (the constants of one group are distinct single bits).  `|=` is union,    *)
(* `= 0` is the empty set.                                                   *)

\* bitflags! GeneralFlags
GeneralFlags ==
    {"CL_SCAN_GENERAL_ALLMATCHES", "CL_SCAN_GENERAL_COLLECT_METADATA",
     "CL_SCAN_GENERAL_HEURISTICS", "CL_SCAN_GENERAL_HEURISTIC_PRECEDENCE",
     "CL_SCAN_GENERAL_UNPRIVILEGED"}

\* bitflags! ParseFlags
ParseFlags ==
    {"CL_SCAN_PARSE_ARCHIVE", "CL_SCAN_PARSE_ELF", "CL_SCAN_PARSE_PDF",
     "CL_SCAN_PARSE_SWF", "CL_SCAN_PARSE_HWP3", "CL_SCAN_PARSE_XMLDOCS",
     "CL_SCAN_PARSE_MAIL", "CL_SCAN_PARSE_OLE2", "CL_SCAN_PARSE_HTML",
     "CL_SCAN_PARSE_PE"}

\* bitflags! HeuristicFlags
HeuristicFlags ==
    {"CL_SCAN_HEURISTIC_BROKEN", "CL_SCAN_HEURISTIC_EXCEEDS_MAX",
     "CL_SCAN_HEURISTIC_PHISHING_SSL_MISMATCH", "CL_SCAN_HEURISTIC_PHISHING_CLOAK",
     "CL_SCAN_HEURISTIC_MACROS", "CL_SCAN_HEURISTIC_ENCRYPTED_ARCHIVE",
     "CL_SCAN_HEURISTIC_ENCRYPTED_DOC", "CL_SCAN_HEURISTIC_PARTITION_INTXN",
     "CL_SCAN_HEURISTIC_STRUCTURED", "CL_SCAN_HEURISTIC_STRUCTURED_SSN_NORMAL",
     "CL_SCAN_HEURISTIC_STRUCTURED_SSN_STRIPPED", "CL_SCAN_HEURISTIC_STRUCTURED_CC"}

\* bitflags! MailFlags
MailFlags == {"CL_SCAN_MAIL_PARTIAL_MESSAGE"}

\* bitflags! DevFlags
DevFlags == {"CL_SCAN_DEV_COLLECT_SHA", "CL_SCAN_DEV_COLLECT_PERFORMANCE_INFO"}

\* cl_scan_options { general, parse, heuristic, mail, dev }
Options(general, parse, heuristic, mail, dev) ==
    [general |-> general, parse |-> parse, heuristic |-> heuristic,
     mail |-> mail, dev |-> dev]

\* cl_scan_options::default(): the standard options
cl_scan_options_default == Options({}, ParseFlags, {}, {}, {})

\* #[derive(Default)] ScanSettings: settings = cl_scan_options::default()
ScanSettings_default == cl_scan_options_default

\* A builder method gives the builder as it is afterwards (self) and the builder
\* its returned reference points at (ret)
Returns(self, r) == [self |-> self, ret |-> r]

\* self.current.<group> ^= flags; self
OrInto_toggle(c, group, flags) ==
    LET c2 == [c EXCEPT ![group] = (@ \ flags) \cup (flags \ @)] IN Returns(c2, c2)

\* self.current.<group> |= flags; self
OrInto(c, group, flags) ==
    LET c2 == [c EXCEPT ![group] = @ \cup flags] IN Returns(c2, c2)

\* A builder whose groups are all zero
ScanSettingsBuilder_zeroed == Options({}, {}, {}, {}, {})

\* ScanSettingsBuilder::new(): current = cl_scan_options::default()
ScanSettingsBuilder_new == cl_scan_options_default

\* build() that leaves the parse group out of the snapshot
build_without_parse(c) == [c EXCEPT !.parse = {}]

\* ScanSettingsBuilder::build(): ScanSettings { settings: self.current }
build(c) == c

\* clear() that resets every group
clear_all(c) ==
    Returns(ScanSettingsBuilder_zeroed, ScanSettingsBuilder_zeroed)

\* clear() that resets nothing
clear_nothing(c) == Returns(c, c)

\* ScanSettingsBuilder::clear(): self.current.parse = 0; self
clear(c) == LET c2 == [c EXCEPT !.parse = {}] IN Returns(c2, c2)

enable_archive(c) == OrInto(c, "parse", {"CL_SCAN_PARSE_ARCHIVE"})

enable_mail(c) == OrInto(c, "parse", {"CL_SCAN_PARSE_MAIL"})

enable_ole2(c) == OrInto(c, "parse", {"CL_SCAN_PARSE_OLE2"})

\* block_encrypted() that also sets the encrypted-document bit
block_encrypted_doc_too(c) ==
    OrInto(c, "heuristic", {"CL_SCAN_HEURISTIC_ENCRYPTED_ARCHIVE"}
                              \cup {"CL_SCAN_HEURISTIC_ENCRYPTED_DOC"})

\* heuristic |= CL_SCAN_HEURISTIC_ENCRYPTED_ARCHIVE | CL_SCAN_HEURISTIC_ENCRYPTED_ARCHIVE
block_encrypted(c) ==
    OrInto(c, "heuristic", {"CL_SCAN_HEURISTIC_ENCRYPTED_ARCHIVE"}
                              \cup {"CL_SCAN_HEURISTIC_ENCRYPTED_ARCHIVE"})

enable_html(c) == OrInto(c, "parse", {"CL_SCAN_PARSE_HTML"})

enable_pe(c) == OrInto(c, "parse", {"CL_SCAN_PARSE_PE"})

block_broken_executables(c) == OrInto(c, "heuristic", {"CL_SCAN_HEURISTIC_BROKEN"})

block_max_limit(c) == OrInto(c, "heuristic", {"CL_SCAN_HEURISTIC_EXCEEDS_MAX"})

enable_phishing_blockssl(c) ==
    OrInto(c, "heuristic", {"CL_SCAN_HEURISTIC_PHISHING_SSL_MISMATCH"})

enable_phishing_blockcloak(c) ==
    OrInto(c, "heuristic", {"CL_SCAN_HEURISTIC_PHISHING_CLOAK"})

enable_elf(c) == OrInto(c, "parse", {"CL_SCAN_PARSE_ELF"})

\* enable_pdf() that assigns the bit instead of or-ing it in
enable_pdf_assign(c) ==
    LET c2 == [c EXCEPT !.parse = {"CL_SCAN_PARSE_PDF"}] IN Returns(c2, c2)

enable_pdf(c) == OrInto(c, "parse", {"CL_SCAN_PARSE_PDF"})

enable_structured(c) == OrInto(c, "heuristic", {"CL_SCAN_HEURISTIC_STRUCTURED"})

enable_structured_ssn_normal(c) ==
    OrInto(c, "heuristic", {"CL_SCAN_HEURISTIC_STRUCTURED_SSN_NORMAL"})

enable_structured_ssn_stripped(c) ==
    OrInto(c, "heuristic", {"CL_SCAN_HEURISTIC_STRUCTURED_SSN_STRIPPED"})

\* enable_partial_message that sets its flag in the parse group
enable_partial_message_into_parse(c) ==
    OrInto(c, "parse", {"CL_SCAN_MAIL_PARTIAL_MESSAGE"})

enable_partial_message(c) == OrInto(c, "mail", {"CL_SCAN_MAIL_PARTIAL_MESSAGE"})

enable_heuristic_precedence(c) ==
    OrInto(c, "general", {"CL_SCAN_GENERAL_HEURISTIC_PRECEDENCE"})

block_macros(c) == OrInto(c, "heuristic", {"CL_SCAN_HEURISTIC_MACROS"})

enable_swf(c) == OrInto(c, "parse", {"CL_SCAN_PARSE_SWF"})

enable_xmldocs(c) == OrInto(c, "parse", {"CL_SCAN_PARSE_XMLDOCS"})

enable_hwp3(c) == OrInto(c, "parse", {"CL_SCAN_PARSE_HWP3"})

\* The enable_X / block_X methods of ScanSettingsBuilder
FlagMethods ==
    {"enable_archive", "enable_mail", "enable_ole2", "block_encrypted",
     "enable_html", "enable_pe", "block_broken_executables", "block_max_limit",
     "enable_phishing_blockssl", "enable_phishing_blockcloak", "enable_elf",
     "enable_pdf", "enable_structured", "enable_structured_ssn_normal",
     "enable_structured_ssn_stripped", "enable_partial_message",
     "enable_heuristic_precedence", "block_macros", "enable_swf",
     "enable_xmldocs", "enable_hwp3"}

\* The methods that enable a parser: they set a bit of the parse group
ParseMethods ==
    {"enable_archive", "enable_mail", "enable_ole2", "enable_html", "enable_pe",
     "enable_elf", "enable_pdf", "enable_swf", "enable_xmldocs", "enable_hwp3"}

\* The method named m, applied to a builder with groups c
Apply(m, c) ==
    CASE m = "enable_archive" -> enable_archive(c)
      [] m = "enable_mail" -> enable_mail(c)
      [] m = "enable_ole2" -> enable_ole2(c)
      [] m = "block_encrypted" -> block_encrypted(c)
      [] m = "enable_html" -> enable_html(c)
      [] m = "enable_pe" -> enable_pe(c)
      [] m = "block_broken_executables" -> block_broken_executables(c)
      [] m = "block_max_limit" -> block_max_limit(c)
      [] m = "enable_phishing_blockssl" -> enable_phishing_blockssl(c)
      [] m = "enable_phishing_blockcloak" -> enable_phishing_blockcloak(c)
      [] m = "enable_elf" -> enable_elf(c)
      [] m = "enable_pdf" -> enable_pdf(c)
      [] m = "enable_structured" -> enable_structured(c)
      [] m = "enable_structured_ssn_normal" -> enable_structured_ssn_normal(c)
      [] m = "enable_structured_ssn_stripped" -> enable_structured_ssn_stripped(c)
      [] m = "enable_partial_message" -> enable_partial_message(c)
      [] m = "enable_heuristic_precedence" -> enable_heuristic_precedence(c)
      [] m = "block_macros" -> block_macros(c)
      [] m = "enable_swf" -> enable_swf(c)
      [] m = "enable_xmldocs" -> enable_xmldocs(c)
      [] m = "enable_hwp3" -> enable_hwp3(c)
      [] m = "clear" -> clear(c)

NoSettings == [made |-> FALSE, opts |-> ScanSettingsBuilder_zeroed]
Made(opts) == [made |-> TRUE, opts |-> opts]

\* A call of the settings API: no Engine call, no process call
SettingsCall(m) ==
    /\ lastMethod' = m
    /\ UNCHANGED initVars
    /\ UNCHANGED engineVars
    /\ UNCHANGED restVars

\* A call that makes or changes a builder
BuilderCall(m) ==
    /\ calls < limit
    /\ calls' = calls + 1
    /\ UNCHANGED <<limit, arg, output>>
    /\ SettingsCall(m)

\* ScanSettingsBuilder::new(): a fresh builder replaces the one at hand
BuilderNew ==
    /\ BuilderCall("new")
    /\ current' = ScanSettingsBuilder_new
    /\ chain' = ScanSettingsBuilder_new
    /\ called' = << >>
    /\ UNCHANGED settings

\* builder.clear()
BuilderClear ==
    /\ BuilderCall("clear")
    /\ current' = clear(current).self
    /\ chain' = clear(current).ret
    /\ called' = Append(called, "clear")
    /\ UNCHANGED settings

\* builder.enable_X() or builder.block_X()
BuilderFlag(m) ==
    /\ BuilderCall(m)
    /\ current' = Apply(m, current).self
    /\ chain' = Apply(m, current).ret
    /\ called' = Append(called, m)
    /\ UNCHANGED settings

\* builder.build()
BuilderBuild ==
    /\ SettingsCall("build")
    /\ settings' = Made(build(current))
    /\ UNCHANGED <<current, chain, called, calls, limit, arg, output>>

\* ScanSettings::default()
SettingsDefault ==
    /\ SettingsCall("default")
    /\ settings' = Made(ScanSettings_default)
    /\ UNCHANGED <<current, chain, called, calls, limit, arg, output>>

---------------------------------------------------------------------------
(* ScanSettings: the typed accessors of the groups and the rendering to text *)

\* What a ScanSettings method returns: (), a typed flag set, a text or a panic.
\* A text is the sequence of its pieces: flag names and separators.
Out(tag, flags, text) == [tag |-> tag, flags |-> flags, text |-> text]
Unit == Out("unit", {}, << >>)
Flags(flags) == Out("flags", flags, << >>)
Text(text) == Out("text", {}, text)
OutPanic == Out("panic", {}, << >>)

\* The flags a bitflags! type of a group declares
FlagsOf(group) ==
    CASE group = "general" -> GeneralFlags
      [] group = "parse" -> ParseFlags
      [] group = "heuristic" -> HeuristicFlags
      [] group = "mail" -> MailFlags
      [] group = "dev" -> DevFlags

\* <Flags>::from_bits(bits): None when a bit is set that the type does not declare
from_bits(group, bits) ==
    IF bits \subseteq FlagsOf(group) THEN Some(bits) ELSE None

\* <Flags>::bits(): the word under the typed flag set
bits(flags) == flags

\* fn general(&self) etc.: <Flags>::from_bits(self.settings.<group>).unwrap()
getter(opts, group) ==
    IF from_bits(group, opts[group]).some
    THEN Flags(from_bits(group, opts[group]).bytes)
    ELSE OutPanic

general(opts) == getter(opts, "general")
parse(opts) == getter(opts, "parse")
heuristic(opts) == getter(opts, "heuristic")
mail(opts) == getter(opts, "mail")
dev(opts) == getter(opts, "dev")

set_general(opts, flags) == [opts EXCEPT !.general = bits(flags)]
set_parse(opts, flags) == [opts EXCEPT !.parse = bits(flags)]

\* set_heuristic that stores into the parse group
set_heuristic_into_parse(opts, flags) == [opts EXCEPT !.parse = bits(flags)]

set_heuristic(opts, flags) == [opts EXCEPT !.heuristic = bits(flags)]
set_mail(opts, flags) == [opts EXCEPT !.mail = bits(flags)]
set_dev(opts, flags) == [opts EXCEPT !.dev = bits(flags)]

\* The (flag, name) lists of to_string, in their order
Pair(flag, name) == [flag |-> flag, name |-> name]

general_flags ==
    <<Pair("CL_SCAN_GENERAL_ALLMATCHES", "CL_SCAN_GENERAL_ALLMATCHES"),
      Pair("CL_SCAN_GENERAL_COLLECT_METADATA", "CL_SCAN_GENERAL_COLLECT_METADATA"),
      Pair("CL_SCAN_GENERAL_HEURISTICS", "CL_SCAN_GENERAL_HEURISTICS"),
      Pair("CL_SCAN_GENERAL_HEURISTIC_PRECEDENCE", "CL_SCAN_GENERAL_HEURISTIC_PRECEDENCE"),
      Pair("CL_SCAN_GENERAL_UNPRIVILEGED", "CL_SCAN_GENERAL_UNPRIVILEGED")>>

parse_flags ==
    <<Pair("CL_SCAN_PARSE_ARCHIVE", "CL_SCAN_PARSE_ARCHIVE"),
      Pair("CL_SCAN_PARSE_ELF", "CL_SCAN_PARSE_ELF"),
      Pair("CL_SCAN_PARSE_PDF", "CL_SCAN_PARSE_PDF"),
      Pair("CL_SCAN_PARSE_SWF", "CL_SCAN_PARSE_SWF"),
      Pair("CL_SCAN_PARSE_HWP3", "CL_SCAN_PARSE_HWP3"),
      Pair("CL_SCAN_PARSE_XMLDOCS", "CL_SCAN_PARSE_XMLDOCS"),
      Pair("CL_SCAN_PARSE_MAIL", "CL_SCAN_PARSE_MAIL"),
      Pair("CL_SCAN_PARSE_OLE2", "CL_SCAN_PARSE_OLE2"),
      Pair("CL_SCAN_PARSE_HTML", "CL_SCAN_PARSE_HTML"),
      Pair("CL_SCAN_PARSE_PE", "CL_SCAN_PARSE_PE")>>

heuristic_flags ==
    <<Pair("CL_SCAN_HEURISTIC_BROKEN", "CL_SCAN_HEURISTIC_BROKEN"),
      Pair("CL_SCAN_HEURISTIC_EXCEEDS_MAX", "CL_SCAN_HEURISTIC_EXCEEDS_MAX"),
      Pair("CL_SCAN_HEURISTIC_PHISHING_SSL_MISMATCH",
           "CL_SCAN_HEURISTIC_PHISHING_SSL_MISMATCH"),
      Pair("CL_SCAN_HEURISTIC_PHISHING_CLOAK", "CL_SCAN_HEURISTIC_PHISHING_CLOAK"),
      Pair("CL_SCAN_HEURISTIC_MACROS", "CL_SCAN_HEURISTIC_MACROS"),
      Pair("CL_SCAN_HEURISTIC_ENCRYPTED_ARCHIVE", "CL_SCAN_HEURISTIC_ENCRYPTED_ARCHIVE"),
      Pair("CL_SCAN_HEURISTIC_ENCRYPTED_DOC", "CL_SCAN_HEURISTIC_ENCRYPTED_DOC"),
      Pair("CL_SCAN_HEURISTIC_PARTITION_INTXN", "CL_SCAN_HEURISTIC_PARTITION_INTXN"),
      Pair("CL_SCAN_HEURISTIC_STRUCTURED", "CL_SCAN_HEURISTIC_STRUCTURED"),
      Pair("CL_SCAN_HEURISTIC_STRUCTURED_SSN_NORMAL",
           "CL_SCAN_HEURISTIC_STRUCTURED_SSN_NORMAL"),
      Pair("CL_SCAN_HEURISTIC_STRUCTURED_SSN_STRIPPED",
           "CL_SCAN_HEURISTIC_STRUCTURED_SSN_STRIPPED"),
      Pair("CL_SCAN_HEURISTIC_STRUCTURED_CC", "CL_SCAN_HEURISTIC_STRUCTURED_CC")>>

mail_flags ==
    <<Pair("CL_SCAN_MAIL_PARTIAL_MESSAGE", "CL_SCAN_MAIL_PARTIAL_MESSAGE")>>

dev_flags ==
    <<Pair("CL_SCAN_DEV_COLLECT_SHA", "CL_SCAN_DEV_COLLECT_SHA"),
      Pair("CL_SCAN_DEV_COLLECT_PERFORMANCE_INFO",
           "CL_SCAN_DEV_COLLECT_PERFORMANCE_INFO")>>

\* <Flags>::contains(flag): every bit of flag is set
contains(flags, flag) == {flag} \subseteq flags

\* for (flag, name) in list { if self.<group>().contains(flag) { push(name) } }
RECURSIVE push_names(_, _, _)
push_names(list, flags, i) ==
    IF i > Len(list) THEN << >>
    ELSE (IF contains(flags, list[i].flag) THEN <<list[i].name>> ELSE << >>)
            \o push_names(list, flags, i + 1)

\* flag_names.join(" "): the names with one separator between neighbours
RECURSIVE join(_, _)
join(names, sep) ==
    IF Len(names) = 0 THEN << >>
    ELSE IF Len(names) = 1 THEN names
    ELSE <<names[1], sep>> \o join(Tail(names), sep)

\* The groups whose accessor to_string calls while a list is not empty
Rendered == {"general", "parse", "heuristic", "mail", "dev"}

\* to_string that leaves the mail list out
to_string_without_mail(opts) ==
    IF \E g \in Rendered : ~from_bits(g, opts[g]).some THEN OutPanic
    ELSE Text(join(push_names(general_flags, opts.general, 1)
                     \o push_names(parse_flags, opts.parse, 1)
                     \o push_names(heuristic_flags, opts.heuristic, 1)
                     \o push_names(dev_flags, opts.dev, 1), " "))

\* impl ToString for ScanSettings
to_string(opts) ==
    IF \E g \in Rendered : ~from_bits(g, opts[g]).some THEN OutPanic
    ELSE Text(join(push_names(general_flags, opts.general, 1)
                     \o push_names(parse_flags, opts.parse, 1)
                     \o push_names(heuristic_flags, opts.heuristic, 1)
                     \o push_names(mail_flags, opts.mail, 1)
                     \o push_names(dev_flags, opts.dev, 1), " "))

\* The typed flag sets the callers of the model pass: none, one flag, all flags
FlagSets(group) ==
    {{}, FlagsOf(group)} \cup {{f} : f \in FlagsOf(group)}

\* A call on the ScanSettings at hand that leaves the builder alone
SnapshotCall(m) ==
    /\ settings.made
    /\ SettingsCall(m)
    /\ UNCHANGED <<current, chain, called, limit>>

\* A setter call: settings.set_<group>(flags)
SetterCall(m, flags, opts) ==
    /\ SnapshotCall(m)
    /\ calls < limit
    /\ calls' = calls + 1
    /\ settings' = Made(opts)
    /\ arg' = flags
    /\ output' = Unit

\* settings.set_general(flags)
SetGeneral(flags) ==
    /\ flags \subseteq GeneralFlags
    /\ SetterCall("set_general", flags, set_general(settings.opts, flags))

\* settings.set_parse(flags)
SetParse(flags) ==
    /\ flags \subseteq ParseFlags
    /\ SetterCall("set_parse", flags, set_parse(settings.opts, flags))

\* settings.set_heuristic(flags)
SetHeuristic(flags) ==
    /\ flags \subseteq HeuristicFlags
    /\ SetterCall("set_heuristic", flags, set_heuristic(settings.opts, flags))

\* settings.set_mail(flags)
SetMail(flags) ==
    /\ flags \subseteq MailFlags
    /\ SetterCall("set_mail", flags, set_mail(settings.opts, flags))

\* settings.set_dev(flags)
SetDev(flags) ==
    /\ flags \subseteq DevFlags
    /\ SetterCall("set_dev", flags, set_dev(settings.opts, flags))


\* A call that reads the ScanSettings and returns value
ReaderCall(m, value) ==
    /\ SnapshotCall(m)
    /\ output' = value
    /\ UNCHANGED <<settings, arg, calls>>

\* settings.general()
GetGeneral ==
    /\ settings.made
    /\ ReaderCall("general", general(settings.opts))

\* settings.parse()
GetParse ==
    /\ settings.made
    /\ ReaderCall("parse", parse(settings.opts))

\* settings.heuristic()
GetHeuristic ==
    /\ settings.made
    /\ ReaderCall("heuristic", heuristic(settings.opts))

\* settings.mail()
GetMail ==
    /\ settings.made
    /\ ReaderCall("mail", mail(settings.opts))

\* settings.dev()
GetDev ==
    /\ settings.made
    /\ ReaderCall("dev", dev(settings.opts))


\* settings.to_string()
Render ==
    /\ settings.made
    /\ ReaderCall("to_string", to_string(settings.opts))

---------------------------------------------------------------------------
(* Specifications *)

InitProcess ==
    /\ pc = [t \in Threads |-> "idle"]
    /\ result = [t \in Threads |-> CL_SUCCESS]
    /\ enteredAt = [t \in Threads |-> 0]
    /\ nativeInitCalls = 0
    /\ returned = << >>

InitEngines ==
    /\ engine = [e \in Engines |-> UnbornEngine]
    /\ nextHandle = 1
    /\ freeCount = [h \in Handles \cup {NULL} |-> 0]
    /\ usedAfterFree = FALSE
    /\ ret = NoValue
    /\ native = NoNativeCall
    /\ props = [h \in Handles |-> NativeDefaults]
    /\ propCall = NoPropCall

\* A builder fresh from ScanSettingsBuilder::new(), no settings made yet
InitBuilder ==
    /\ current = ScanSettingsBuilder_new
    /\ chain = ScanSettingsBuilder_new
    /\ settings = NoSettings
    /\ lastMethod = "new"
    /\ called = << >>
    /\ calls = 0
    /\ arg = {}
    /\ output = Unit

InitSettings == InitBuilder /\ limit = MaxBuilderCalls

\* The process at start: nothing initialised, no engine constructed
Init == InitProcess /\ InitEngines /\ InitSettings /\ InitNoFmaps /\ InitAux

\* Threads call initialize() and construct and drop engines, in any interleaving
NextProcess ==
    \/ \E t \in Threads : InitializeCall(t)
    \/ \E t \in Threads : InitializeReturn(t)
    \/ \E e \in Engines : EngineNew(e)
    \/ \E e \in Engines : Drop(e)

SpecProcess == Init /\ [][NextProcess]_vars

\* The detected names a native scan can write: "Ei", "e-acute" in two bytes, a
\* byte that no UTF-8 text holds, a two-byte sequence cut short, the empty name
VirNames == {<<69, 105>>, <<195, 169>>, <<255>>, <<69, 195>>, << >>}

\* The optional file names a caller passes to a scan
Filenames == {None, Some(<<102>>), Some(<<102, 0>>)}

\* The statuses and names the scans of SpecEngine draw from
LifecycleOutcomes == {[status |-> CL_CLEAN, virname |-> NullPtr],
                      [status |-> CL_VIRUS, virname |-> Ptr(<<69, 105>>)]}
LifecycleFilenames == {None}
LifecyclePaths == {DatabaseFile, FakePath}

\* initialize() has been called once and has returned Ok
InitProcessDone ==
    /\ pc = [t \in Threads |-> "idle"]
    /\ result = [t \in Threads |-> CL_SUCCESS]
    /\ enteredAt = [t \in Threads |-> 0]
    /\ nativeInitCalls = 1
    /\ returned = <<[thread |-> 1, value |-> Ok, enteredAt |-> 0]>>

InitEngine == InitProcessDone /\ InitEngines /\ InitSettings /\ InitOneFmap /\ InitAux

\* The life of engines: construction, loads, compilation, scans, teardown
NextEngine ==
    \/ \E e \in Engines : EngineNew(e)
    \/ \E e \in Engines, path \in LifecyclePaths : load_databases(e, path)
    \/ \E e \in Engines : compile(e)
    \/ \E e \in Engines, o \in LifecycleOutcomes :
          scan_file(e, DatabaseFile, o.status, o.virname)
    \/ \E e \in Engines, f \in LifecycleFilenames, o \in LifecycleOutcomes :
          scan_descriptor(e, f, o.status, o.virname)
    \/ \E e \in Engines, f \in LifecycleFilenames, o \in LifecycleOutcomes :
          scan_fileobj(e, f, o.status, o.virname)
    \/ \E e \in Engines, m \in Fmaps, f \in LifecycleFilenames,
          o \in LifecycleOutcomes :
          scan_map(e, m, f, o.status, o.virname)
    \/ \E e \in Engines : database_version(e)
    \/ \E e \in Engines : Drop(e)

SpecEngine == InitEngine /\ [][NextEngine]_vars

\* One engine, constructed and compiled after initialize() returned Ok
InitScan ==
    /\ InitProcessDone
    /\ engine = [e \in Engines |->
                   IF e = 1 THEN [st |-> "live", handle |-> 1, compiled |-> TRUE,
                                  sigs |-> 0]
                   ELSE UnbornEngine]
    /\ nextHandle = 2
    /\ freeCount = [h \in Handles \cup {NULL} |-> 0]
    /\ usedAfterFree = FALSE
    /\ ret = Ok
    /\ native = NativeCall("cl_engine_compile", CL_SUCCESS, NullPtr, NullPtr)
    /\ props = [h \in Handles |-> NativeDefaults]
    /\ propCall = NoPropCall
    /\ InitSettings
    /\ InitOneFmap
    /\ InitAux

\* What a native scan can give back: any status of the enum, and a name with
\* CL_VIRUS
ScanOutcomes ==
    {[status |-> CL_VIRUS, virname |-> Ptr(vn)] : vn \in VirNames}
       \cup {[status |-> st, virname |-> NullPtr] : st \in cl_error \ {CL_VIRUS}}

\* Scans of every kind, with every status the native library has
NextScan ==
    \/ \E e \in Engines, p \in Paths, o \in ScanOutcomes :
          scan_file(e, p, o.status, o.virname)
    \/ \E e \in Engines, f \in Filenames, o \in ScanOutcomes :
          scan_descriptor(e, f, o.status, o.virname)
    \/ \E e \in Engines, f \in Filenames, o \in ScanOutcomes :
          scan_fileobj(e, f, o.status, o.virname)
    \/ \E e \in Engines, m \in Fmaps, f \in Filenames, o \in ScanOutcomes :
          scan_map(e, m, f, o.status, o.virname)

SpecScan == InitScan /\ [][NextScan]_vars

\* The settings API: builders, their methods, snapshots
NextSettings ==
    \/ BuilderNew
    \/ BuilderClear
    \/ \E m \in FlagMethods : BuilderFlag(m)
    \/ BuilderBuild
    \/ SettingsDefault

SpecSettings == Init /\ [][NextSettings]_vars

\* One builder, fresh from ScanSettingsBuilder::new(), in a longer chain of calls
InitChain ==
    InitProcess /\ InitEngines /\ InitBuilder /\ limit = MaxChainCalls /\ InitNoFmaps
    /\ InitAux

\* A chain of calls that picks parsers: clear(), enable_X() of the parse group,
\* build()
NextChain ==
    \/ BuilderClear
    \/ \E m \in ParseMethods : BuilderFlag(m)
    \/ BuilderBuild

SpecChain == InitChain /\ [][NextChain]_vars

\* A ScanSettings made by default() or by build(), then set, read and rendered
InitSnapshot ==
    InitProcess /\ InitEngines /\ InitBuilder /\ limit = MaxSetCalls /\ InitNoFmaps
    /\ InitAux

NextSnapshot ==
    \/ SettingsDefault
    \/ BuilderBuild
    \/ \E f \in FlagSets("general") : SetGeneral(f)
    \/ \E f \in FlagSets("parse") : SetParse(f)
    \/ \E f \in FlagSets("heuristic") : SetHeuristic(f)
    \/ \E f \in FlagSets("mail") : SetMail(f)
    \/ \E f \in FlagSets("dev") : SetDev(f)
    \/ GetGeneral
    \/ GetParse
    \/ GetHeuristic
    \/ GetMail
    \/ GetDev
    \/ Render

SpecSnapshot == InitSnapshot /\ [][NextSnapshot]_vars

\* Two engines after initialize() returned Ok: the first holds a native engine,
\* the second the null handle a failed cl_engine_new returned
InitProperty ==
    /\ InitProcessDone
    /\ engine = [e \in Engines |->
                   IF e = 1 THEN [st |-> "live", handle |-> 1, compiled |-> FALSE,
                                  sigs |-> 0]
                   ELSE IF e = 2 THEN [st |-> "live", handle |-> NULL,
                                       compiled |-> FALSE, sigs |-> 0]
                   ELSE UnbornEngine]
    /\ nextHandle = 2
    /\ freeCount = [h \in Handles \cup {NULL} |-> 0]
    /\ usedAfterFree = FALSE
    /\ ret = NoValue
    /\ native = NativeCall("cl_engine_new", CL_SUCCESS, NullPtr, NullPtr)
    /\ props = [h \in Handles |-> NativeDefaults]
    /\ propCall = NoPropCall
    /\ InitSettings
    /\ InitOneFmap
    /\ InitAux

\* Engine properties are set and read, in any order
NextProperty ==
    \/ \E e \in Engines, field \in Fields, value \in EngineValues :
          set(e, field, value)
    \/ \E e \in Engines, field \in Fields : get(e, field)

SpecProperty == InitProperty /\ [][NextProperty]_vars

\* Engines are constructed, load databases from every kind of path, compile
\* and go
NextLoad ==
    \/ \E e \in Engines : EngineNew(e)
    \/ \E e \in Engines, path \in Paths : load_databases(e, path)
    \/ \E e \in Engines : compile(e)
    \/ \E e \in Engines : Drop(e)

SpecLoad == InitEngine /\ [][NextLoad]_vars

\* One engine, constructed and compiled, and no Fmap yet
InitFmap ==
    /\ InitProcessDone
    /\ engine = [e \in Engines |->
                   IF e = 1 THEN [st |-> "live", handle |-> 1, compiled |-> TRUE,
                                  sigs |-> 0]
                   ELSE UnbornEngine]
    /\ nextHandle = 2
    /\ freeCount = [h \in Handles \cup {NULL} |-> 0]
    /\ usedAfterFree = FALSE
    /\ ret = Ok
    /\ native = NativeCall("cl_engine_compile", CL_SUCCESS, NullPtr, NullPtr)
    /\ props = [h \in Handles |-> NativeDefaults]
    /\ propCall = NoPropCall
    /\ InitSettings
    /\ InitNoFmaps
    /\ InitAux

\* Fmaps are made from memory and from handles, scanned and dropped, while the
\* caller releases what they were made from when it likes
NextFmap ==
    \/ \E m \in Fmaps, r \in Regions : new_from_memory(m, r.start, r.len)
    \/ \E m \in Fmaps, offset \in FileOffsets, len \in FileLens,
          use_ageing \in BOOLEAN :
          new_from_handle(m, FileHandle, offset, len, use_ageing)
    \/ \E e \in Engines, m \in Fmaps, f \in LifecycleFilenames,
          o \in LifecycleOutcomes :
          scan_map(e, m, f, o.status, o.virname)
    \/ \E m \in Fmaps : Fmap_drop(m)
    \/ \E m \in Fmaps : Release(m)

SpecFmap == InitFmap /\ [][NextFmap]_vars

\* On the Windows build: WindowsFd values are made and dropped, and files are
\* scanned through them
NextWindowsFd ==
    \/ \E w \in WindowsFds : WindowsFd_new(w)
    \/ \E w \in WindowsFds : WindowsFd_drop(w)
    \/ \E e \in Engines, w \in WindowsFds, f \in Filenames, o \in ScanOutcomes :
          scan_fileobj_windows(e, w, f, o.status, o.virname)

SpecWindowsFd == InitFmap /\ [][NextWindowsFd]_vars

\* A scan of any kind
AnyScan ==
    \/ \E e \in Engines, p \in Paths, o \in LifecycleOutcomes :
          scan_file(e, p, o.status, o.virname)
    \/ \E e \in Engines, f \in Filenames, o \in LifecycleOutcomes :
          \/ scan_descriptor(e, f, o.status, o.virname)
          \/ scan_fileobj(e, f, o.status, o.virname)
          \/ \E m \in Fmaps : scan_map(e, m, f, o.status, o.virname)
          \/ \E w \in WindowsFds : scan_fileobj_windows(e, w, f, o.status, o.virname)

\* A ScanSettings made by default(), set, and given to scans of every kind
NextScanSettings ==
    \/ SettingsDefault
    \/ \E f \in FlagSets("dev") : SetDev(f)
    \/ \E e \in Engines, p \in LifecyclePaths, o \in LifecycleOutcomes :
          settings.made /\ scan_file(e, p, o.status, o.virname)
    \/ \E e \in Engines, f \in Filenames, o \in LifecycleOutcomes :
          settings.made /\ scan_descriptor(e, f, o.status, o.virname)
    \/ \E e \in Engines, f \in LifecycleFilenames, o \in LifecycleOutcomes :
          settings.made /\ scan_fileobj(e, f, o.status, o.virname)
    \/ \E e \in Engines, m \in Fmaps, f \in LifecycleFilenames,
          o \in LifecycleOutcomes :
          settings.made /\ scan_map(e, m, f, o.status, o.virname)
    \/ \E e \in Engines, f \in LifecycleFilenames, o \in LifecycleOutcomes :
          settings.made /\ scan_fileobj_windows(e, 1, f, o.status, o.virname)

SpecScanSettings == InitScan /\ [][NextScanSettings]_vars

\* The times a database can carry: the epoch, the seconds around it, the ends
\* of i64 and their neighbours
Times ==
    {Word64(0, 0, 0, 0), Word64(0, 0, 0, 1), Word64(0, 0, 1, 0), MaxI64,
     MinusOne64, Word64(LimbMax, LimbMax, 0, 0), Word64(32768, 0, 0, 1), MinI64}

\* Engines as in InitProperty, whose native engines hold any of the times
InitTime ==
    /\ InitProcessDone
    /\ engine = [e \in Engines |->
                   IF e = 1 THEN [st |-> "live", handle |-> 1, compiled |-> FALSE,
                                  sigs |-> 0]
                   ELSE IF e = 2 THEN [st |-> "live", handle |-> NULL,
                                       compiled |-> FALSE, sigs |-> 0]
                   ELSE UnbornEngine]
    /\ nextHandle = 2
    /\ freeCount = [h \in Handles \cup {NULL} |-> 0]
    /\ usedAfterFree = FALSE
    /\ ret = NoValue
    /\ native = NativeCall("cl_engine_new", CL_SUCCESS, NullPtr, NullPtr)
    /\ \E t \in Times :
          props = [h \in Handles |-> [NativeDefaults EXCEPT !["CL_ENGINE_DB_TIME"] = t]]
    /\ propCall = NoPropCall
    /\ InitSettings
    /\ InitNoFmaps
    /\ InitAux

\* A ClamTime is turned into an instant
ClamTime_as_system_time(t) ==
    /\ \E instant \in as_system_time(t) :
          pure' = Applied("as_system_time", <<t>>, instant)
    /\ Stateless

\* Times are read from engines and turned into instants
NextTime ==
    \/ \E e \in Engines : database_timestamp(e)
    \/ \E e \in Engines : get(e, "CL_ENGINE_DB_TIME")
    \/ \E t \in Times : ClamTime_as_system_time(t)

SpecTime == InitTime /\ [][NextTime]_vars

\* The native library reads the file of a mapping through cl_pread, of either
\* build
NextPread ==
    \/ \E count \in Counts, offset \in Offsets : cl_pread_unix(count, offset)
    \/ \E count \in Counts, offset \in Offsets : cl_pread_windows(count, offset)

SpecPread == InitFmap /\ [][NextPread]_vars

\* The codes every code is compared with
ComparedWith == {CL_SUCCESS, CL_EARG, CL_ELAST_ERROR}

\* A caller formats and compares errors of every status code
NextError ==
    \/ \E code \in cl_error : Display(code)
    \/ \E code \in cl_error : Debug(code)
    \/ \E a \in cl_error, b \in ComparedWith : PartialEq(a, b)

SpecError == InitFmap /\ [][NextError]_vars

---------------------------------------------------------------------------
(* Claims about the scans *)

\* The last Engine call was a scan that reached the native library
ScanReturned ==
    native.fn \in {"cl_scanfile", "cl_scandesc", "cl_scanmap_callback"}

\* C1: after every scan call, CL_CLEAN/CL_SUCCESS has given Clean,
\* CL_BREAK has given Whitelisted, CL_VIRUS has given Virus(name) with name equal
\* to the string the native call wrote to its out-parameter, and every other
\* status has given Err(ClamError) with that status as its code.
C1_ScanResultMapping ==
    ScanReturned =>
        /\ native.status = CL_CLEAN => ret = Clean
        /\ native.status = CL_BREAK => ret = Whitelisted
        /\ native.status = CL_VIRUS => ret = Virus(native.virname.bytes)
        /\ native.status \notin {CL_CLEAN, CL_BREAK, CL_VIRUS} =>
              ret = Err(native.status)

---------------------------------------------------------------------------
(* Claims about process initialisation *)

\* C2: however many calls of initialize() there are, the native cl_init has run
\* exactly once, and all the calls return the same value.
C2_InitOnceSameResult ==
    /\ (nativeInitCalls > 0 => nativeInitCalls = 1)
    /\ \A i, j \in DOMAIN returned : returned[i].value = returned[j].value

\* An earlier call of initialize() has returned a ClamError
ErrorReturned == \E i \in DOMAIN returned : returned[i].value.tag = "Err"

\* C3: once a call of initialize() has returned a ClamError, the native cl_init
\* does not run again, and every call that begins later returns that ClamError.
C3_StickyFailure ==
    [][ErrorReturned =>
          /\ nativeInitCalls' = nativeInitCalls
          /\ \A i, j \in DOMAIN returned' :
                (returned'[i].value.tag = "Err" /\ returned'[j].enteredAt >= i)
                   => returned'[j].value = returned'[i].value]_vars

\* C5: an Engine is constructed only in a state where a call of initialize()
\* has returned Ok.
C5_InitBeforeEngine ==
    [][\A e \in Engines :
          (engine[e].st = "unborn" /\ engine'[e].st = "live") => InitCompleted]_vars

---------------------------------------------------------------------------
(* Claims about the engine handle *)

\* C4: a handle obtained at construction belongs to one Engine only, has not been
\* passed to cl_engine_free while its Engine lives, has been passed to it exactly
\* once when its Engine has been dropped, and no native call has received a
\* handle that had been freed.
C4_HandleOwnedFreedOnce ==
    /\ ~usedAfterFree
    /\ \A e \in Engines :
          /\ (engine[e].st = "live" /\ engine[e].handle # NULL)
                => freeCount[engine[e].handle] = 0
          /\ (engine[e].st = "dropped" /\ engine[e].handle # NULL)
                => freeCount[engine[e].handle] = 1
    /\ \A h \in Handles :
          (\A e \in Engines : engine[e].st = "unborn" \/ engine[e].handle # h)
             => freeCount[h] = 0
    /\ freeCount[NULL] =
          Cardinality({e \in Engines : engine[e].st = "dropped"
                                        /\ engine[e].handle = NULL})
    /\ \A e1, e2 \in Engines :
          (/\ e1 # e2
           /\ engine[e1].st # "unborn" /\ engine[e2].st # "unborn"
           /\ engine[e1].handle # NULL)
             => engine[e1].handle # engine[e2].handle

\* An engine has been dropped and its handle freed once, while another engine,
\* with databases loaded and compiled, has just scanned a file
C4_Witness ==
    \E e1, e2 \in Engines :
       /\ engine[e1].st = "dropped" /\ engine[e1].handle # NULL
       /\ freeCount[engine[e1].handle] = 1
       /\ engine[e2].st = "live" /\ engine[e2].compiled /\ engine[e2].sigs > 0
       /\ native.fn = "cl_scanfile"


---------------------------------------------------------------------------
(* Scan settings claims, checked under SpecSettings *)

\* The standard-options preset: the ten parse bits, every other group zero
StandardPreset ==
    [general |-> {},
     parse |-> {"CL_SCAN_PARSE_ARCHIVE", "CL_SCAN_PARSE_MAIL", "CL_SCAN_PARSE_OLE2",
                "CL_SCAN_PARSE_PDF", "CL_SCAN_PARSE_HTML", "CL_SCAN_PARSE_PE",
                "CL_SCAN_PARSE_ELF", "CL_SCAN_PARSE_SWF", "CL_SCAN_PARSE_XMLDOCS",
                "CL_SCAN_PARSE_HWP3"},
     heuristic |-> {},
     mail |-> {},
     dev |-> {}]

Groups == {"general", "parse", "heuristic", "mail", "dev"}

\* C6: ScanSettingsBuilder::new().build() and ScanSettings::default() both
\* equal the standard preset: parse holds exactly the archive, mail, OLE2, PDF,
\* HTML, PE, ELF, SWF, XML-docs and HWP3 bits; general, heuristic, mail and dev
\* are zero.
C6_DefaultsAreStandardPreset ==
    /\ (lastMethod = "build" /\ called = << >>) => settings = Made(StandardPreset)
    /\ lastMethod = "default" => settings = Made(StandardPreset)

\* new().build() has run: a snapshot taken of a builder nothing was called on
C6_Witness ==
    /\ lastMethod = "build"
    /\ called = << >>
    /\ settings.made
    /\ "CL_SCAN_PARSE_HWP3" \in settings.opts.parse

\* C7: on every reachable builder, clear() sets the parse group to zero and
\* leaves the general, heuristic, mail and dev groups at their prior values.
C7_ClearZeroesParseOnly ==
    [][(lastMethod' = "clear" /\ calls' = calls + 1) =>
          /\ current'.parse = {}
          /\ \A g \in Groups \ {"parse"} : current'[g] = current[g]]_vars

\* clear() has run on a builder with bits in another group, and they are kept
C7_Witness ==
    /\ lastMethod = "clear"
    /\ current.parse = {}
    /\ current.heuristic = {"CL_SCAN_HEURISTIC_MACROS"}

\* C8: the snapshot of ScanSettingsBuilder::new().clear().build() has all five
\* groups zero.
C8_ClearedFreshBuilderIsZero ==
    (lastMethod = "build" /\ called = <<"clear">>) =>
        /\ settings.made
        /\ \A g \in Groups : settings.opts[g] = {}

\* new().clear().build() has run
C8_Witness ==
    /\ lastMethod = "build"
    /\ called = <<"clear">>
    /\ settings.made
    /\ settings.opts.parse = {}

\* The group and the bit each enable_X / block_X method is documented to set
Documented(m) ==
    CASE m = "enable_archive" -> <<"parse", "CL_SCAN_PARSE_ARCHIVE">>
      [] m = "enable_mail" -> <<"parse", "CL_SCAN_PARSE_MAIL">>
      [] m = "enable_ole2" -> <<"parse", "CL_SCAN_PARSE_OLE2">>
      [] m = "block_encrypted" -> <<"heuristic", "CL_SCAN_HEURISTIC_ENCRYPTED_ARCHIVE">>
      [] m = "enable_html" -> <<"parse", "CL_SCAN_PARSE_HTML">>
      [] m = "enable_pe" -> <<"parse", "CL_SCAN_PARSE_PE">>
      [] m = "block_broken_executables" -> <<"heuristic", "CL_SCAN_HEURISTIC_BROKEN">>
      [] m = "block_max_limit" -> <<"heuristic", "CL_SCAN_HEURISTIC_EXCEEDS_MAX">>
      [] m = "enable_phishing_blockssl" ->
             <<"heuristic", "CL_SCAN_HEURISTIC_PHISHING_SSL_MISMATCH">>
      [] m = "enable_phishing_blockcloak" ->
             <<"heuristic", "CL_SCAN_HEURISTIC_PHISHING_CLOAK">>
      [] m = "enable_elf" -> <<"parse", "CL_SCAN_PARSE_ELF">>
      [] m = "enable_pdf" -> <<"parse", "CL_SCAN_PARSE_PDF">>
      [] m = "enable_structured" -> <<"heuristic", "CL_SCAN_HEURISTIC_STRUCTURED">>
      [] m = "enable_structured_ssn_normal" ->
             <<"heuristic", "CL_SCAN_HEURISTIC_STRUCTURED_SSN_NORMAL">>
      [] m = "enable_structured_ssn_stripped" ->
             <<"heuristic", "CL_SCAN_HEURISTIC_STRUCTURED_SSN_STRIPPED">>
      [] m = "enable_partial_message" -> <<"mail", "CL_SCAN_MAIL_PARTIAL_MESSAGE">>
      [] m = "enable_heuristic_precedence" ->
             <<"general", "CL_SCAN_GENERAL_HEURISTIC_PRECEDENCE">>
      [] m = "block_macros" -> <<"heuristic", "CL_SCAN_HEURISTIC_MACROS">>
      [] m = "enable_swf" -> <<"parse", "CL_SCAN_PARSE_SWF">>
      [] m = "enable_xmldocs" -> <<"parse", "CL_SCAN_PARSE_XMLDOCS">>
      [] m = "enable_hwp3" -> <<"parse", "CL_SCAN_PARSE_HWP3">>

\* C9: every enable_X / block_X method, on any builder, ORs exactly the one bit
\* documented for it into exactly one group, leaves the other bits of that
\* group and the other four groups unchanged, and returns the same builder.
C9_FlagMethodSetsOneBit ==
    [][\A m \in FlagMethods :
          (lastMethod' = m /\ calls' = calls + 1) =>
              /\ current'[Documented(m)[1]] =
                     current[Documented(m)[1]] \cup {Documented(m)[2]}
              /\ \A g \in Groups \ {Documented(m)[1]} : current'[g] = current[g]
              /\ chain' = current']_vars

\* block_encrypted() has run on a fresh builder and set the one heuristic bit
C9_Witness ==
    /\ lastMethod = "block_encrypted"
    /\ called = <<"block_encrypted">>
    /\ current.heuristic = {"CL_SCAN_HEURISTIC_ENCRYPTED_ARCHIVE"}
    /\ current.parse = StandardPreset.parse
    /\ chain = current

\* The snapshot of a builder with groups c after calling a, then b, then build()
SnapshotAfter(c, a, b) == build(Apply(b, Apply(a, c).self).self)

\* Every builder state arises from new(), clear() or a flag method, and build()
\* and default() leave the builder alone: each builder state is met before any
\* snapshot is made
BuilderJustChanged ==
    /\ lastMethod \in FlagMethods \cup {"new", "clear"}
    /\ ~settings.made

\* C10: for any builder and any two flag-setting methods A and B, A then B then
\* build() gives a snapshot equal in all five groups to B then A then build().
C10_FlagMethodsCommute ==
    /\ BuilderJustChanged =>
          LET after == [m \in FlagMethods |-> Apply(m, current).self]
          IN  \A a, b \in FlagMethods :
                 build(Apply(b, after[a]).self) = build(Apply(a, after[b]).self)
    /\ (/\ lastMethod = "build"
        /\ Len(called) = 2
        /\ called[1] \in FlagMethods
        /\ called[2] \in FlagMethods) =>
          settings.opts = SnapshotAfter(ScanSettingsBuilder_new, called[2], called[1])

\* new().enable_pdf().block_macros().build() has run; its snapshot is the one
\* of the opposite order
C10_Witness ==
    /\ lastMethod = "build"
    /\ called = <<"enable_pdf", "block_macros">>
    /\ settings = Made(SnapshotAfter(ScanSettingsBuilder_new, "block_macros", "enable_pdf"))
    /\ settings.opts.heuristic = {"CL_SCAN_HEURISTIC_MACROS"}


\* The builder was cleared first and only parser methods were called since
ClearedThenParsers ==
    /\ Len(called) >= 1
    /\ called[1] = "clear"
    /\ \A i \in 2..Len(called) : called[i] \in ParseMethods

\* C11: ScanSettingsBuilder::new().clear(), then the methods of any set S of
\* parser methods in any order, then build(), gives a parse group that holds
\* exactly the flags of the methods of S and no other parse bit.
C11_ClearThenEnableGivesExactlyS ==
    (lastMethod = "build" /\ ClearedThenParsers) =>
        settings.opts.parse = {Documented(called[i])[2] : i \in 2..Len(called)}

\* new().clear().enable_pe().enable_pdf().enable_html().build() has run and gave
\* PDF | HTML | PE
C11_Witness ==
    /\ lastMethod = "build"
    /\ called = <<"clear", "enable_pe", "enable_pdf", "enable_html">>
    /\ settings.made
    /\ settings.opts.parse = {"CL_SCAN_PARSE_PDF", "CL_SCAN_PARSE_HTML", "CL_SCAN_PARSE_PE"}


---------------------------------------------------------------------------
(* ScanSettings claims, checked under SpecSnapshot *)

\* The flags set in a ScanSettings, over all five groups
FlagsSet(opts) == UNION {opts[g] : g \in Groups}

\* The place of a flag's group in the order general, parse, heuristic, mail, dev
GroupRank(flag) ==
    CASE flag \in GeneralFlags -> 1
      [] flag \in ParseFlags -> 2
      [] flag \in HeuristicFlags -> 3
      [] flag \in MailFlags -> 4
      [] flag \in DevFlags -> 5
      [] OTHER -> 6

\* The pieces of a text at the odd places: what the separators separate
Words(text) == [i \in 1..((Len(text) + 1) \div 2) |-> text[2 * i - 1]]

GroupOf(m) ==
    CASE m \in {"set_general", "general"} -> "general"
      [] m \in {"set_parse", "parse"} -> "parse"
      [] m \in {"set_heuristic", "heuristic"} -> "heuristic"
      [] m \in {"set_mail", "mail"} -> "mail"
      [] m \in {"set_dev", "dev"} -> "dev"

Setters == {"set_general", "set_parse", "set_heuristic", "set_mail", "set_dev"}

\* C13: for each group G and every typed flag set f of G, set_G(f) followed by
\* G() returns f, and set_G(f) leaves the other four groups unchanged.
C13_SetThenGetReturnsWhatWasSet ==
    [][/\ (lastMethod' \in Setters /\ calls' = calls + 1) =>
             \A g \in Groups \ {GroupOf(lastMethod')} :
                settings'.opts[g] = settings.opts[g]
       /\ (lastMethod \in Setters /\ lastMethod' = GroupOf(lastMethod)) =>
             output' = Flags(arg)]_vars

\* set_heuristic(all heuristic flags) then heuristic() has run on settings
\* whose parse group is the standard one
C13_Witness ==
    /\ lastMethod = "heuristic"
    /\ arg = HeuristicFlags
    /\ output = Flags(HeuristicFlags)
    /\ settings.opts.parse = StandardPreset.parse

\* C14: a set whose value is of another type than the one declared for the
\* field returns the argument error CL_EARG, makes no native call and leaves
\* every engine property as it was.
C14_TypeMismatchIsRejected ==
    [][(/\ propCall'.op = "set"
        /\ actual_type(propCall'.value) # get_field_type(propCall'.field)) =>
          /\ ret' = Err(CL_EARG)
          /\ native'.fn = "none"
          /\ props' = props]_vars

\* A U64 value has been given to a U32 field of an engine that holds values set
\* before
C14_Witness ==
    /\ propCall = PropCall("set", 1, "CL_ENGINE_MAX_RECURSION",
                           U64(Word64(LimbMax, LimbMax, LimbMax, LimbMax)))
    /\ ret = Err(CL_EARG)
    /\ props[1]["CL_ENGINE_MAX_RECURSION"] = Word64(0, 0, 0, 7)
    /\ props[1]["CL_ENGINE_TMPDIR"] = Ptr(<<116>>)

\* C15: for a field of type U32 and a u32 value v, a set(field, U32(v)) that
\* succeeded and the get(field) that follows it on the same engine give
\* U32(v): v passes through the signed 64-bit argument and back unchanged.
C15_U32RoundTrip ==
    [][(/\ propCall.op = "set"
        /\ ret = Ok
        /\ actual_type(propCall.value) = "U32"
        /\ propCall'.op = "get"
        /\ propCall'.e = propCall.e
        /\ propCall'.field = propCall.field) =>
          ret' = OkU32(propCall.value.payload)]_vars

\* The largest u32 has been set and read back
C15_Witness ==
    /\ propCall.op = "get"
    /\ propCall.field = "CL_ENGINE_MAX_RECURSION"
    /\ native.fn = "cl_engine_get_num"
    /\ ret = OkU32(Word32(LimbMax, LimbMax))

\* C16: a load_databases call that succeeds on a database directory or file
\* returns DatabaseStats whose signature_count is above zero and is the number
\* of signatures that call loaded, while the signatures the engine holds add up
\* over the calls.
C16_StatsCountThisLoadOnly ==
    [][(native'.fn = "cl_load" /\ ret'.tag = "Stats") =>
          /\ ret'.num > 0
          /\ ret'.num = SigsAt(native'.filename.bytes)
          /\ \E e \in Engines :
                /\ engine'[e].sigs = engine[e].sigs + ret'.num
                /\ \A o \in Engines \ {e} : engine'[o] = engine[o]]_vars

\* The second load of the database file on one engine: the call reports one
\* signature, the engine holds two
C16_Witness ==
    /\ native.fn = "cl_load"
    /\ native.filename = Ptr(DatabaseFile)
    /\ ret = DatabaseStats(1)
    /\ \E e \in Engines : engine[e].st = "live" /\ engine[e].sigs = 2

\* The paths that hold no database
InvalidPaths == {path \in Paths : SigsAt(path) = 0}

\* C17: for every path that is invalid, nonexistent, unreadable or holds a
\* malformed database, load_databases returns Err(ClamError) with the status of
\* the native load, no DatabaseStats, and the caller goes on: the call does not
\* panic (of the calls made here, load_databases alone can).
C17_BadPathIsAnError ==
    /\ (native.fn = "cl_load" /\ native.filename.bytes \in InvalidPaths) =>
          ret = Err(native.status)
    /\ ret # Panic

\* The engines hold no signatures: no load has succeeded
NothingLoaded == \A e \in Engines : engine[e].sigs = 0

Opens == {"cl_fmap_open_memory", "cl_fmap_open_handle"}

\* C19: Fmap::new_from_memory and Fmap::new_from_handle return Err(MapError)
\* exactly when the native open call returned a null mapping, and otherwise an
\* Fmap that holds the mapping returned; a null or empty memory region gives
\* MapError, and no call panics.
C19_NullMappingIsMapError ==
    native.fn \in Opens =>
       /\ ret = MapError <=> native.map = NULL
       /\ native.map # NULL =>
             /\ ret = OkFmap(native.map)
             /\ \E m \in Fmaps : fmap[m].st = "live" /\ raw(m) = native.map
       /\ native.map = NULL => \A m \in Fmaps : fmap[m].st = "live" => raw(m) # NULL
       /\ (/\ native.fn = "cl_fmap_open_memory"
           /\ (native.region.start = NullStart \/ native.region.len = 0)) =>
             ret = MapError
       /\ ret # Panic

\* A null region has given MapError while an Fmap made from a handle exists
C19_Witness ==
    /\ native.fn = "cl_fmap_open_memory"
    /\ native.region = Region(NullStart, 0)
    /\ ret = MapError
    /\ \E m \in Fmaps : fmap[m] = [st |-> "live", map |-> 1, from |-> "handle"]

\* C20: the mapping of every Fmap is closed exactly once, at drop; nothing is
\* closed when construction failed; scan_map never receives a closed mapping;
\* and dropping an Fmap leaves the memory region or OS handle it wraps with
\* the caller.
C20_MappingClosedOnceAtDrop ==
    [][/\ \A m \in Fmaps :
             /\ fmap'[m].st = "live" => closeCount'[fmap'[m].map] = 0
             /\ fmap'[m].st = "dropped" => closeCount'[fmap'[m].map] = 1
             /\ fmap'[m].st = "failed" => fmap'[m].map = NULL
       /\ closeCount'[NULL] = 0
       /\ native'.fn = "cl_fmap_close" =>
             /\ held' = held
             /\ \E m \in Fmaps :
                   /\ fmap[m].st = "live" /\ fmap'[m].st = "dropped"
                   /\ native'.map = fmap[m].map
       /\ native'.fn = "cl_scanmap_callback" =>
             native'.map # NULL /\ closeCount[native'.map] = 0]_vars

\* An Fmap has been dropped, its mapping closed once and its buffer still
\* held, beside a construction that failed
C20_Witness ==
    /\ native.fn = "cl_fmap_close"
    /\ fmap[1].st = "dropped"
    /\ closeCount[fmap[1].map] = 1
    /\ held[1]
    /\ fmap[2].st = "failed"

\* C21: scan_map never reads an Fmap made from a memory region that the caller
\* has released: the Fmap cannot outlive the region it was made from.
C21_ScanReadsHeldRegion ==
    native.fn = "cl_scanmap_callback" =>
       \A m \in Fmaps :
          (/\ fmap[m].st = "live" /\ raw(m) = native.map
           /\ fmap[m].from = "memory") => held[m]

\* C22: a WindowsFd holds a descriptor over a duplicate of the handle given;
\* dropping it closes that descriptor exactly once and never the handle of the
\* caller, so the file of the caller is open after scan_fileobj has returned,
\* whatever it returned.
C22_DropClosesDuplicateOnly ==
    [][/\ \A w \in WindowsFds :
             /\ wfd'[w].st = "live" =>
                   /\ wfd'[w].dup = "open" /\ wfd'[w].closes = 0
                   /\ wfd'[w].fd # NoFd
             /\ (wfd[w].st = "unborn" /\ wfd'[w].st = "live") =>
                   ret' = OkWindowsFd(wfd'[w].fd)
             /\ wfd'[w].st = "dropped" =>
                   wfd'[w].dup = "closed" /\ wfd'[w].closes = 1
       /\ origOpen']_vars

\* A scan through a WindowsFd has found a virus; the descriptor is closed and
\* the file of the caller is open
C22_Witness ==
    /\ native.fn = "cl_scandesc"
    /\ ret = Virus(<<69, 105>>)
    /\ wfd[1].st = "dropped"
    /\ wfd[1].closes = 1
    /\ wfd[1].dup = "closed"
    /\ origOpen

\* C28: WindowsFd::new leaves nothing open when it fails: nothing when the
\* duplication fails, and the duplicate is closed when its conversion into a
\* descriptor fails; the error returned holds the error of the OS.
C28_FailureReleasesAll ==
    [][\A w \in WindowsFds :
          (wfd[w].st = "unborn" /\ wfd'[w].st = "failed") =>
             /\ wfd'[w].dup # "open"
             /\ ret'.tag # "Err" => ret'.tag = "OsError"]_vars

\* C23: cl_pread reads as pread does: for every offset and count it puts into
\* the buffer the bytes of the file from that offset on, count at most, and
\* returns their number; on the Windows build a read at the end of the file
\* returns 0, and any other failure returns -1.
C23_ReadsAtTheOffset ==
    pure.fn \in {"cl_pread_unix", "cl_pread_windows"} =>
       IF pure.result.os = "error"
       THEN pure.result.n = 0 - 1
       ELSE /\ pure.result.data = BytesAt(pure.args.offset, pure.args.count)
            /\ pure.result.n = Len(pure.result.data)

\* The number a sequence of decimal digits stands for
RECURSIVE DecimalValue(_)
DecimalValue(digits) ==
    IF digits = << >> THEN 0
    ELSE DecimalValue(SubSeq(digits, 1, Len(digits) - 1)) * 10
         + (CHOOSE d \in 0..9 : DigitChars[d + 1] = digits[Len(digits)])

\* C24: for every status code, the Display and the Debug text of the error are
\* both "cl_error <code>: <description>", with the code in decimal and the
\* description the native library has for it; two errors are equal exactly
\* when their codes are.
C24_TextAndEquality ==
    /\ pure.fn \in {"Display", "Debug"} =>
          LET text == pure.result
              code == pure.args[1]
              digits == SubSeq(text, 2, Len(text) - 1 - Len(cl_strerror(code)))
          IN  /\ text[1] = "cl_error "
              /\ digits # << >>
              /\ \A i \in 1..Len(digits) : \E d \in 1..10 : DigitChars[d] = digits[i]
              /\ Len(digits) > 1 => digits[1] # "0"
              /\ DecimalValue(digits) = code
              /\ text[2 + Len(digits)] = ": "
              /\ SubSeq(text, 3 + Len(digits), Len(text)) = cl_strerror(code)
    /\ pure.fn = "PartialEq" =>
          (pure.result <=> pure.args[1] = pure.args[2])

C24_Witness ==
    /\ pure.fn = "Debug"
    /\ pure.args = <<CL_EMEM>>
    /\ pure.result = <<"cl_error ", "2", "0", ": ", "description of code ", "20">>

\* C25: a scan call of any kind leaves the ScanSettings it was given as it
\* was: each of the five groups holds after the call what it held before.
C25_ScanLeavesSettings ==
    [][(settings.made /\ AnyScan) =>
          /\ settings'.made
          /\ \A g \in Groups : settings'.opts[g] = settings.opts[g]]_vars

C25_Witness ==
    /\ native.fn = "cl_scanmap_callback"
    /\ ret = Virus(<<69, 105>>)
    /\ settings.made
    /\ settings.opts.dev = {"CL_SCAN_DEV_COLLECT_SHA"}
    /\ settings.opts.parse = ScanSettings_default.parse
    /\ lastMethod = "set_dev"

\* C26: the lifecycle of an engine is construction, loads, compile, scans: a
\* scan of any kind on an engine comes after a compile() on that engine that
\* returned Ok.
C26_ScanAfterCompile ==
    [][\A e \in Engines :
          (\E o \in LifecycleOutcomes :
              \/ scan_file(e, DatabaseFile, o.status, o.virname)
              \/ scan_descriptor(e, None, o.status, o.virname)
              \/ scan_fileobj(e, None, o.status, o.virname)
              \/ \E m \in Fmaps : scan_map(e, m, None, o.status, o.virname))
          => engine[e].compiled]_vars

\* C27: in scan_descriptor and scan_map the filename pointer the native call
\* receives is null when no filename was given, and otherwise points at a C
\* string buffer that is still allocated while the native call runs.
C27_FilenameBufferLives ==
    native.fn \in {"cl_scandesc", "cl_scanmap_callback"} =>
       /\ ~native.filename.dangling
       /\ native.filename.null => native.filename.bytes = << >>

\* C29: in every builder state reached from new() by clear(), enable_X() and
\* block_X(), each group holds only flags its typed flag set declares, so no
\* typed accessor and no rendering of the snapshot built from it aborts.
C29_BuilderKeepsGroupsTyped ==
    /\ \A g \in Groups : current[g] \subseteq FlagsOf(g)
    /\ general(build(current)) = Flags(current.general)
    /\ parse(build(current)) = Flags(current.parse)
    /\ heuristic(build(current)) = Flags(current.heuristic)
    /\ mail(build(current)) = Flags(current.mail)
    /\ dev(build(current)) = Flags(current.dev)
    /\ to_string(build(current)) # OutPanic

C29_Witness ==
    /\ called = <<"clear", "enable_partial_message">>
    /\ current.parse = {}
    /\ current.mail = {"CL_SCAN_MAIL_PARTIAL_MESSAGE"}
    /\ mail(build(current)) = Flags({"CL_SCAN_MAIL_PARTIAL_MESSAGE"})

\* `value` is the instant t seconds from the epoch: epoch + t for t >= 0, and
\* epoch - |t| for t < 0, where |t| + t = 0
InstantOf(value, t) ==
    /\ value.tag = "OkSystemTime"
    /\ IF NonNegative(t)
       THEN value.name = <<0>> \o t
       ELSE /\ value.name[1] = 1
            /\ Add64(SubSeq(value.name, 2, 5), t) = Word64(0, 0, 0, 0)

\* C30: as_system_time of a ClamTime t is the epoch plus t seconds for t >= 0
\* and the epoch minus |t| seconds for t < 0, with no overflow for any i64 t,
\* the least one included; database_timestamp gives that instant.
C30_InstantOfEveryTime ==
    /\ pure.fn = "as_system_time" => InstantOf(pure.result, pure.args[1])
    /\ (propCall.op = "database_timestamp" /\ ret.tag # "Err") =>
          InstantOf(ret, props[engine[propCall.e].handle]["CL_ENGINE_DB_TIME"])

============================================================================
